---------------------------- MODULE Spec2Model ----------------------------
(***************************************************************************)
(* Reconciliation engine of camp_sync/core.py: run_sync reads the Google   *)
(* calendar, fetches the HipCamp and Checkfront feeds and calls            *)
(* sync_events_to_calendar, which deletes, updates and creates calendar    *)
(* entries keyed by (source, source_id) and propagates HipCamp             *)
(* reservations into Checkfront through CheckfrontAPI.                     *)
(*                                                                         *)
(* Time is counted in ticks of half a day, tick 2*d being midnight UTC of  *)
(* day d.  A python date is [kind |-> "date", v |-> day]; a python         *)
(* datetime (UTC) is [kind |-> "datetime", v |-> tick].  A string is a     *)
(* sequence of word tokens, so that "ends with" and "split" are computed.  *)
(* A python dict is a sequence of <<key, value>> pairs in insertion order. *)
(***************************************************************************)
EXTENDS Integers, Sequences, FiniteSets, TLC

\* ------------------------------------------------------------------ bounds
MaxRuns == 2
MaxFaults == 1

\* ------------------------------------------------------- program constants
TicksPerDay == 2
SYNC_RANGE_DAYS == 90
None == "None"

\* SITE_DISPLAY_NAMES / HIPCAMP_TO_CHECKFRONT / HIPCAMP_ICAL_URLS as loaded by
\* load_site_configuration: two HipCamp sites with a feed each, in dict order;
\* only the first has a Checkfront item.
HIPCAMP_ICAL_URLS == <<"Hilltop 1", "Hilltop 2">>
SITE_DISPLAY_NAMES == <<<<"Hilltop 1", "HT1">>, <<"Hilltop 2", "HT2">>>>
HIPCAMP_TO_CHECKFRONT == <<<<"Hilltop 1", "item1">>>>

\* ------------------------------------------------------------ dict helpers
RECURSIVE DictIndex(_, _)
DictIndex(d, k) ==
    IF d = <<>> THEN 0
    ELSE IF d[Len(d)][1] = k THEN Len(d)
    ELSE DictIndex(SubSeq(d, 1, Len(d) - 1), k)

DictHas(d, k) == DictIndex(d, k) # 0

DictGet(d, k) == IF DictHas(d, k) THEN d[DictIndex(d, k)][2] ELSE None

DictSet(d, k, v) ==
    IF DictHas(d, k)
    THEN [d EXCEPT ![DictIndex(d, k)] = <<k, v>>]
    ELSE Append(d, <<k, v>>)

DictKeys(d) == [i \in 1..Len(d) |-> d[i][1]]

RECURSIVE DictUpdate(_, _)
DictUpdate(d, e) ==
    IF e = <<>> THEN d
    ELSE DictUpdate(DictSet(d, e[1][1], e[1][2]), Tail(e))

RECURSIVE Concat(_)
Concat(ss) == IF ss = <<>> THEN <<>> ELSE Head(ss) \o Concat(Tail(ss))

Range(s) == {s[i] : i \in 1..Len(s)}

\* ------------------------------------------------------------ time helpers
Date(d) == [kind |-> "date", v |-> d]
DateTime(t) == [kind |-> "datetime", v |-> t]

\* normalize_datetime: a date becomes midnight of that day, a naive datetime
\* is taken as UTC.
normalize_datetime(dt) ==
    IF dt.kind = "date" THEN dt.v * TicksPerDay ELSE dt.v

\* strftime("%Y-%m-%d"): the calendar day of a date or datetime.
strftime(dt) == IF dt.kind = "date" THEN dt.v ELSE dt.v \div TicksPerDay

\* datetime.fromisoformat(f"{d}T00:00:00") of a date-only calendar value, or
\* fromisoformat of a dateTime value.
fromisoformat(raw) ==
    IF raw.kind = "dateTime" THEN DateTime(raw.v)
    ELSE DateTime(raw.v * TicksPerDay)

\* ---------------------------------------------------------- CalendarEvent
CalendarEvent(start_time, end_time, summary, description, source, source_id, google_event_id) ==
    [start_time |-> start_time, end_time |-> end_time, summary |-> summary,
     description |-> description, source |-> source, source_id |-> source_id,
     google_event_id |-> google_event_id]

Truthy(x) == x # None /\ x # ""

get_site_display_name(site_name) ==
    IF DictHas(SITE_DISPLAY_NAMES, site_name)
    THEN DictGet(SITE_DISPLAY_NAMES, site_name) ELSE site_name

\* extract_booking_id: the digits after "Booking ID: #" in the description;
\* a description is [guest, phone, marker, email], marker being the digits of
\* the marker or None when the description carries no marker; NoDescription
\* is the empty string.
NoDescription == [guest |-> "", phone |-> FALSE, marker |-> None, email |-> None]

extract_booking_id(description) ==
    IF description = NoDescription THEN None ELSE description.marker

\* The isinstance(..., vDate) test of the fetch functions: .dt of an icalendar
\* property is a datetime.date or datetime.datetime, never a vDate, so the
\* value is used as it is.
combine_if_vDate(dt, hour) == dt

\* fetch one VEVENT of a HipCamp feed (body of the inner loop).
hipcamp_vevent_to_event(site_name, vevent) ==
    CalendarEvent(combine_if_vDate(vevent.dtstart, 14),
                  combine_if_vDate(vevent.dtend, 12),
                  <<get_site_display_name(site_name), "-",
                    vevent.description.guest>>,
                  vevent.description, "hipcamp",
                  extract_booking_id(vevent.description), None)

RECURSIVE hipcamp_feed_events(_, _)
hipcamp_feed_events(site_name, vevents) ==
    IF vevents = <<>> THEN <<>>
    ELSE (IF Truthy(extract_booking_id(Head(vevents).description))
          THEN <<hipcamp_vevent_to_event(site_name, Head(vevents))>>
          ELSE <<>>)
         \o hipcamp_feed_events(site_name, Tail(vevents))

\* Variant: one try around the whole loop, so the first failing site ends it.
fetch_hipcamp_events_one_try(feeds, failed) ==
    Concat([i \in 1..Len(HIPCAMP_ICAL_URLS) |->
              IF \E j \in 1..i : HIPCAMP_ICAL_URLS[j] \in failed THEN <<>>
              ELSE hipcamp_feed_events(HIPCAMP_ICAL_URLS[i],
                                       feeds[HIPCAMP_ICAL_URLS[i]])])

\* fetch_hipcamp_events: every site feed in turn; a site whose request raises
\* RequestException contributes nothing and the loop continues.
fetch_hipcamp_events(feeds, failed) ==
    Concat([i \in 1..Len(HIPCAMP_ICAL_URLS) |->
              IF HIPCAMP_ICAL_URLS[i] \in failed THEN <<>>
              ELSE hipcamp_feed_events(HIPCAMP_ICAL_URLS[i],
                                       feeds[HIPCAMP_ICAL_URLS[i]])])

\* extract_checkfront_booking_id: the path segment after /booking/ of the url,
\* modelled as the field booking of the VEVENT (None when the url has none).
extract_checkfront_booking_id(url) == url

\* Variant: events whose summary carries "(HipCamp)" are not skipped.
RECURSIVE checkfront_feed_events_unfiltered(_)
checkfront_feed_events_unfiltered(vevents) ==
    IF vevents = <<>> THEN <<>>
    ELSE LET v == Head(vevents)
             booking_id == extract_checkfront_booking_id(v.url)
         IN (IF ~Truthy(booking_id)
             THEN <<>>
             ELSE <<CalendarEvent(combine_if_vDate(v.dtstart, 14),
                                  combine_if_vDate(v.dtend, 12),
                                  <<v.location, "-">> \o v.summary,
                                  NoDescription, "checkfront", booking_id,
                                  None)>>)
            \o checkfront_feed_events_unfiltered(Tail(vevents))
\* fetch_checkfront_events, loop body: a VEVENT without booking id in its url,
\* or with "(HipCamp)" in its summary, is skipped.
RECURSIVE checkfront_feed_events(_)
checkfront_feed_events(vevents) ==
    IF vevents = <<>> THEN <<>>
    ELSE LET v == Head(vevents)
             booking_id == extract_checkfront_booking_id(v.url)
         IN (IF ~Truthy(booking_id) \/ "(HipCamp)" \in Range(v.summary)
             THEN <<>>
             ELSE <<CalendarEvent(combine_if_vDate(v.dtstart, 14),
                                  combine_if_vDate(v.dtend, 12),
                                  <<v.location, "-">> \o v.summary,
                                  NoDescription, "checkfront", booking_id,
                                  None)>>)
            \o checkfront_feed_events(Tail(vevents))

\* fetch_checkfront_events: one feed; a RequestException leaves the list empty.
fetch_checkfront_events(feed, failed) ==
    IF failed THEN <<>> ELSE checkfront_feed_events(feed)


\* ------------------------------------------------- Google calendar backend
\* A calendar entry is [id, summary, description, start, end, private]; start
\* and end are [kind |-> "date" | "dateTime", v]; private is the private
\* extended-properties bag (a function; empty when the entry has none).
NoProps == [k \in {} |-> ""]

RawTick(raw) == IF raw.kind = "date" THEN raw.v * TicksPerDay ELSE raw.v

RECURSIVE InsertByStart(_, _)
InsertByStart(sorted, e) ==
    IF sorted = <<>> THEN <<e>>
    ELSE IF RawTick(e.start) < RawTick(Head(sorted).start)
         THEN <<e>> \o sorted
         ELSE <<Head(sorted)>> \o InsertByStart(Tail(sorted), e)

RECURSIVE OrderByStartTime(_)
OrderByStartTime(entries) ==
    IF entries = <<>> THEN <<>>
    ELSE InsertByStart(OrderByStartTime(SubSeq(entries, 1, Len(entries) - 1)),
                       entries[Len(entries)])

\* events().list(timeMin, singleEvents, orderBy="startTime")
events_list(cal, time_min) ==
    OrderByStartTime(SelectSeq(cal, LAMBDA e : RawTick(e.end) > time_min))

events_delete(cal, event_id) == SelectSeq(cal, LAMBDA e : e.id # event_id)

\* Variant: the calendar keeps one entry per private booking id.
events_insert_once(cal, event_id, body) ==
    IF \E i \in 1..Len(cal) :
          \E k \in DOMAIN body.private \cap DOMAIN cal[i].private :
             k # "synced_by_script" /\ cal[i].private[k] = body.private[k]
    THEN cal
    ELSE Append(cal, [id |-> event_id, summary |-> body.summary,
                      description |-> body.description, start |-> body.start,
                      end |-> body.end, private |-> body.private])
events_insert(cal, event_id, body) ==
    Append(cal, [id |-> event_id, summary |-> body.summary,
                 description |-> body.description, start |-> body.start,
                 end |-> body.end, private |-> body.private])

\* events().update replaces the whole resource of the addressed entry.
events_update(cal, event_id, body) ==
    [i \in 1..Len(cal) |->
        IF cal[i].id = event_id
        THEN [id |-> event_id, summary |-> body.summary,
              description |-> body.description, start |-> body.start,
              end |-> body.end, private |-> body.private]
        ELSE cal[i]]

HasEntry(cal, event_id) == \E i \in 1..Len(cal) : cal[i].id = event_id

\* Variant: the checkfront key is looked at first.
read_source_checkfront_first(private) ==
    IF "checkfront_booking_id" \in DOMAIN private THEN "checkfront"
    ELSE IF "hipcamp_booking_id" \in DOMAIN private THEN "hipcamp"
    ELSE "google_calendar"

\* Identity recovered from the private bag (loop body, lines 1131-1142).
read_source(private) ==
    IF "hipcamp_booking_id" \in DOMAIN private THEN "hipcamp"
    ELSE IF "checkfront_booking_id" \in DOMAIN private THEN "checkfront"
    ELSE "google_calendar"

\* Variant: the id is taken from the checkfront key first.
read_source_id_checkfront_first(private) ==
    IF "checkfront_booking_id" \in DOMAIN private
    THEN private["checkfront_booking_id"]
    ELSE IF "hipcamp_booking_id" \in DOMAIN private
         THEN private["hipcamp_booking_id"]
         ELSE None
\* Variant: the read-back recovers no id from the private bag.
read_source_id_unrecovered(private) == None
read_source_id(private) ==
    IF "hipcamp_booking_id" \in DOMAIN private
    THEN private["hipcamp_booking_id"]
    ELSE IF "checkfront_booking_id" \in DOMAIN private
         THEN private["checkfront_booking_id"]
         ELSE None

\* get_google_calendar_events: the listed entries as CalendarEvent objects;
\* an HttpError of the list call is caught and gives the empty list.
get_google_calendar_events(cal, start_time, failed) ==
    IF failed THEN <<>>
    ELSE LET items == events_list(cal, start_time)
         IN [i \in 1..Len(items) |->
               CalendarEvent(fromisoformat(items[i].start),
                             fromisoformat(items[i].end),
                             items[i].summary, items[i].description,
                             read_source(items[i].private),
                             read_source_id(items[i].private),
                             items[i].id)]

\* ----------------------------------------------- sync_events_to_calendar
\* Variant: entries without a source_id are kept in the map.
RECURSIVE build_existing_events_map_unfiltered(_)
build_existing_events_map_unfiltered(existing_events) ==
    IF existing_events = <<>> THEN <<>>
    ELSE LET rest == build_existing_events_map_unfiltered(
                        SubSeq(existing_events, 1, Len(existing_events) - 1))
             event == existing_events[Len(existing_events)]
         IN DictSet(rest, <<event.source, event.source_id>>, event)

\* existing_events_map and google_event_ids (lines 1460-1470).
RECURSIVE build_existing_events_map(_)
build_existing_events_map(existing_events) ==
    IF existing_events = <<>> THEN <<>>
    ELSE LET rest == build_existing_events_map(
                        SubSeq(existing_events, 1, Len(existing_events) - 1))
             event == existing_events[Len(existing_events)]
         IN IF Truthy(event.source_id)
            THEN DictSet(rest, <<event.source, event.source_id>>, event)
            ELSE rest

RECURSIVE build_google_event_ids(_)
build_google_event_ids(existing_events) ==
    IF existing_events = <<>> THEN <<>>
    ELSE LET rest == build_google_event_ids(
                        SubSeq(existing_events, 1, Len(existing_events) - 1))
             event == existing_events[Len(existing_events)]
         IN IF Truthy(event.source_id) /\ Truthy(event.google_event_id)
            THEN DictSet(rest, <<event.source, event.source_id>>,
                         event.google_event_id)
            ELSE rest

\* Variant: an event ending exactly now counts as not ended.
not_ended_inclusive(event, t) == normalize_datetime(event.end_time) >= t

\* "has not ended": normalize_datetime(event.end_time) > now.
not_ended(event, t) == normalize_datetime(event.end_time) > t

\* Variant: the comprehension keeps one item per listing instead of one per
\* key.
RECURSIVE build_new_source_events_per_listing(_, _, _)
build_new_source_events_per_listing(source, events, t) ==
    IF events = <<>> THEN <<>>
    ELSE LET rest == build_new_source_events_per_listing(
                        source, SubSeq(events, 1, Len(events) - 1), t)
             event == events[Len(events)]
         IN IF Truthy(event.source_id) /\ not_ended(event, t)
            THEN Append(rest, <<<<source, event.source_id>>, event>>)
            ELSE rest
\* The dict comprehensions of lines 1490-1500 for one source.
RECURSIVE build_new_source_events(_, _, _)
build_new_source_events(source, events, t) ==
    IF events = <<>> THEN <<>>
    ELSE LET rest == build_new_source_events(
                        source, SubSeq(events, 1, Len(events) - 1), t)
             event == events[Len(events)]
         IN IF Truthy(event.source_id) /\ not_ended(event, t)
            THEN DictSet(rest, <<source, event.source_id>>, event)
            ELSE rest

\* new_events = {**new_hipcamp_events, **new_checkfront_events}
build_new_events(hip, cf, t) ==
    DictUpdate(build_new_source_events("hipcamp", hip, t),
               build_new_source_events("checkfront", cf, t))

capitalize(source) ==
    CASE source = "hipcamp" -> "Hipcamp"
      [] source = "checkfront" -> "Checkfront"
      [] OTHER -> source

\* summary.endswith(" " + source.capitalize()) on a token sequence.
summary_with_source(summary, source) ==
    IF Len(summary) >= 2 /\ summary[Len(summary)] = capitalize(source)
    THEN summary ELSE Append(summary, capitalize(source))

\* Variant: one property name for every source.
booking_id_prop_generic(source) == "booking_id"
booking_id_prop(source) ==
    CASE source = "hipcamp" -> "hipcamp_booking_id"
      [] source = "checkfront" -> "checkfront_booking_id"
      [] OTHER -> "booking_id"

\* The google_event body of lines 1576-1602.
google_event_body(key, event) ==
    [summary |-> summary_with_source(event.summary, key[1]),
     description |-> event.description,
     start |-> [kind |-> "date", v |-> strftime(event.start_time)],
     end |-> [kind |-> "date", v |-> strftime(event.end_time)],
     private |-> [k \in {booking_id_prop(key[1]), "synced_by_script"} |->
                    IF k = "synced_by_script" THEN "true" ELSE key[2]]]

\* Variant: the enrichment body is rebuilt around the Checkfront id alone.
with_checkfront_id_only(body, checkfront_id) ==
    [body EXCEPT !.private =
        [k \in {"checkfront_booking_id", "synced_by_script"} |->
            IF k = "checkfront_booking_id" THEN checkfront_id ELSE "true"]]
\* google_event["extendedProperties"]["private"]["checkfront_booking_id"] = id
with_checkfront_id(body, checkfront_id) ==
    [body EXCEPT !.private =
        [k \in DOMAIN body.private \cup {"checkfront_booking_id"} |->
            IF k = "checkfront_booking_id" THEN checkfront_id
            ELSE body.private[k]]]


\* --------------------------------------------------------- CheckfrontAPI
\* A booking of the booking system is [id, hipcamp_id, customer_name,
\* start_date, end_date]: hipcamp_id is the id that its notes embed after
\* "HipCamp Booking ID: " (None when they embed none), customer_name the
\* customer_name of its form and the dates those of the item in its session.

\* Variant: the notes of the records are not searched.
get_hipcamp_event_mapping_without_notes(events) == <<>>
\* get_hipcamp_event_mapping: HipCamp id -> Checkfront id, from the listing.
RECURSIVE get_hipcamp_event_mapping(_)
get_hipcamp_event_mapping(events) ==
    IF events = <<>> THEN <<>>
    ELSE LET rest == get_hipcamp_event_mapping(
                        SubSeq(events, 1, Len(events) - 1))
             event == events[Len(events)]
         IN IF event.hipcamp_id # None
            THEN DictSet(rest, event.hipcamp_id, event.id)
            ELSE rest

\* _extract_customer_info_from_hipcamp_event: {} for an event without a
\* description, else the guest's name with "(HipCamp)" and an email address.
EmptyInfo == <<>>

extract_customer_info(event) ==
    IF event.description = NoDescription THEN EmptyInfo
    ELSE <<<<"name", <<event.description.guest, "(HipCamp)">>>>,
           <<"email", IF event.description.email # None
                      THEN <<event.description.email>>
                      ELSE <<"sanitized@example.com">>>>>>

\* What the booking system answers during one propagation attempt.  The code
\* stops at the first failing call, so an attempt is described by the answers
\* up to and including its first deviation from OkReply.
OkReply ==
    [session |-> "ok", status |-> "AVAILABLE", error_id |-> None,
     slip |-> "slip", attach |-> "ok", form |-> "ok",
     required |-> {"customer_name", "customer_email"}, create |-> "ok"]

PropagationReplies ==
    {OkReply,
     [OkReply EXCEPT !.session = "raise"],
     [OkReply EXCEPT !.session = "noid"],
     [OkReply EXCEPT !.status = "raise"],
     [OkReply EXCEPT !.status = "ERROR", !.error_id = "SOLDOUT"],
     [OkReply EXCEPT !.status = "ERROR", !.error_id = "OVERBOOK"],
     [OkReply EXCEPT !.status = "ERROR", !.error_id = "INVALID"],
     [OkReply EXCEPT !.status = "SOLDOUT"],
     [OkReply EXCEPT !.status = "UNAVAILABLE"],
     [OkReply EXCEPT !.slip = None],
     [OkReply EXCEPT !.attach = "raise"],
     [OkReply EXCEPT !.attach = "noitems"],
     [OkReply EXCEPT !.form = "raise"],
     [OkReply EXCEPT !.required = {"customer_name", "guest_count"}],
     [OkReply EXCEPT !.create = "raise"],
     [OkReply EXCEPT !.create = "ERROR"],
     [OkReply EXCEPT !.create = "noid"]}

\* create_booking_session: [raised, calls]
create_booking_session(reply) ==
    [raised |-> CASE reply.session = "raise" -> "RequestException"
                  [] reply.session = "noid" -> "ValueError"
                  [] OTHER -> None,
     session_id |-> IF reply.session = "ok" THEN "session" ELSE None,
     calls |-> <<"booking/session">>]

\* Variant: the session is not checked for items after the slip is attached.
add_item_to_session_unverified(reply) ==
    IF reply.status = "raise"
    THEN [raised |-> "RequestException", text |-> {}, calls |-> <<"item">>]
    ELSE IF reply.status = "ERROR"
    THEN [raised |-> "ValueError", text |-> {"unavailable", reply.error_id},
          calls |-> <<"item">>]
    ELSE IF reply.status # "AVAILABLE"
    THEN [raised |-> "ValueError",
          text |-> {"unexpected status", reply.status}, calls |-> <<"item">>]
    ELSE IF ~Truthy(reply.slip)
    THEN [raised |-> "ValueError", text |-> {"No SLIP"}, calls |-> <<"item">>]
    ELSE IF reply.attach = "raise"
    THEN [raised |-> "RequestException", text |-> {},
          calls |-> <<"item", "booking/session/slip">>]
    ELSE [raised |-> None, text |-> {},
          calls |-> <<"item", "booking/session/slip">>]
\* Variant: the rate status is not looked at.
add_item_to_session_ignoring_status(reply) ==
    IF reply.status = "raise"
    THEN [raised |-> "RequestException", text |-> {}, calls |-> <<"item">>]
    ELSE IF ~Truthy(reply.slip)
    THEN [raised |-> "ValueError", text |-> {"No SLIP"}, calls |-> <<"item">>]
    ELSE IF reply.attach = "raise"
    THEN [raised |-> "RequestException", text |-> {},
          calls |-> <<"item", "booking/session/slip">>]
    ELSE IF reply.attach = "noitems"
    THEN [raised |-> "ValueError", text |-> {"no items in session"},
          calls |-> <<"item", "booking/session/slip">>]
    ELSE [raised |-> None, text |-> {},
          calls |-> <<"item", "booking/session/slip">>]

\* add_item_to_session: [raised, text, calls]; text holds the words of the
\* ValueError message that the caller searches for.
add_item_to_session(reply) ==
    IF reply.status = "raise"
    THEN [raised |-> "RequestException", text |-> {}, calls |-> <<"item">>]
    ELSE IF reply.status = "ERROR"
    THEN [raised |-> "ValueError", text |-> {"unavailable", reply.error_id},
          calls |-> <<"item">>]
    ELSE IF reply.status # "AVAILABLE"
    THEN [raised |-> "ValueError",
          text |-> {"unexpected status", reply.status}, calls |-> <<"item">>]
    ELSE IF ~Truthy(reply.slip)
    THEN [raised |-> "ValueError", text |-> {"No SLIP"}, calls |-> <<"item">>]
    ELSE IF reply.attach = "raise"
    THEN [raised |-> "RequestException", text |-> {},
          calls |-> <<"item", "booking/session/slip">>]
    ELSE IF reply.attach = "noitems"
    THEN [raised |-> "ValueError", text |-> {"no items in session"},
          calls |-> <<"item", "booking/session/slip">>]
    ELSE [raised |-> None, text |-> {},
          calls |-> <<"item", "booking/session/slip">>]

\* customer_info.get(key, default)
dict_get(d, key, default) == IF DictHas(d, key) THEN DictGet(d, key) ELSE default

\* default_customer_info of create_booking (lines 681-690).
default_customer_info(customer_info) ==
    <<<<"customer_name", dict_get(customer_info, "name", <<"Guest">>)>>,
      <<"customer_email",
        dict_get(customer_info, "email", <<"guest@example.com">>)>>,
      <<"customer_phone", dict_get(customer_info, "phone", <<"555-555-5555">>)>>,
      <<"camping_setup", <<"No">>>>,
      <<"vehicle__trailer_camping", <<"No">>>>,
      <<"RV_details", <<"N/A">>>>,
      <<"trailer_details", <<"N/A">>>>>>

\* field_mapping.get(key, key) (lines 694-704).
field_mapping(key) ==
    CASE key = "name" -> "customer_name"
      [] key = "email" -> "customer_email"
      [] key = "phone" -> "customer_phone"
      [] key = "tent_camping" -> "camping_setup"
      [] key = "vehicle_trailer_camping" -> "vehicle__trailer_camping"
      [] key = "rv_details" -> "RV_details"
      [] OTHER -> key

\* The loop of lines 706-711: a supplied value that is not empty is stored
\* under the Checkfront name of its key.
RECURSIVE merge_customer_info(_, _)
merge_customer_info(merged, customer_info) ==
    IF customer_info = <<>> THEN merged
    ELSE LET key == Head(customer_info)[1]
             value == Head(customer_info)[2]
         IN merge_customer_info(
               IF value # <<>> THEN DictSet(merged, field_mapping(key), value)
               ELSE merged,
               Tail(customer_info))

\* Variant: a required field only has to be present.
missing_fields_by_presence(required_fields, merged) ==
    {field \in required_fields : ~DictHas(merged, field)}
\* missing_fields of lines 714-717: the required fields that are not in the
\* merged info or have an empty value there.
missing_fields(required_fields, merged) ==
    {field \in required_fields :
        ~DictHas(merged, field) \/ DictGet(merged, field) = <<>>}

\* No booking-create request was sent.
NoForm == <<>>

\* create_booking from the validation on (lines 713-775), merged being
\* merged_customer_info: [raised, booking_id, created, calls, form]; form is
\* the "form" object of the booking/create request.
submit_booking(merged, reply, fresh_id) ==
    IF missing_fields(reply.required, merged) # {}
    THEN [raised |-> "ValueError", booking_id |-> None, created |-> FALSE,
          calls |-> <<"booking/form">>, form |-> NoForm]
    ELSE IF reply.create = "raise"
    THEN [raised |-> "RequestException", booking_id |-> None,
          created |-> FALSE, calls |-> <<"booking/form", "booking/create">>,
          form |-> merged]
    ELSE IF reply.create = "ERROR"
    THEN [raised |-> "ValueError", booking_id |-> None, created |-> FALSE,
          calls |-> <<"booking/form", "booking/create">>, form |-> merged]
    ELSE [raised |-> None,
          booking_id |-> IF reply.create = "noid" THEN None ELSE fresh_id,
          created |-> TRUE, calls |-> <<"booking/form", "booking/create">>,
          form |-> merged]

\* create_booking: the session check (lines 651-654), the form request (660)
\* and the merge of the supplied info over the defaults (681-711).
create_booking(self_session_id, customer_info, reply, fresh_id) ==
    IF self_session_id \in {None, "unset"}
    THEN [raised |-> "ValueError", booking_id |-> None, created |-> FALSE,
          calls |-> <<>>, form |-> NoForm]
    ELSE IF reply.form = "raise"
    THEN [raised |-> "RequestException", booking_id |-> None,
          created |-> FALSE, calls |-> <<"booking/form">>, form |-> NoForm]
    ELSE submit_booking(
             merge_customer_info(default_customer_info(customer_info),
                                 customer_info),
             reply, fresh_id)

\* event.summary.split(" - ", 1)[0]
RECURSIVE split_first(_)
split_first(summary) ==
    IF summary = <<>> \/ Head(summary) = "-" THEN <<>>
    ELSE <<Head(summary)>> \o split_first(Tail(summary))

\* Variant: an unknown display name is taken as the first configured site.
site_of_display_name_or_first(names, display) ==
    IF names = <<>> THEN None ELSE Head(names)[1]
\* Reverse lookup of the display name in SITE_DISPLAY_NAMES.
RECURSIVE site_of_display_name(_, _)
site_of_display_name(names, display) ==
    IF names = <<>> THEN None
    ELSE IF <<Head(names)[2]>> = display THEN Head(names)[1]
    ELSE site_of_display_name(Tail(names), display)

\* The availability errors that create_hipcamp_booking takes as "dates
\* already blocked".
benign_unavailable(text) ==
    "SOLDOUT" \in text \/ "OVERBOOK" \in text \/ "unavailable" \in text

\* Variant: only ValueError is caught.
except_ValueError(exc) == IF exc = "ValueError" THEN None ELSE exc

\* "except Exception" of create_hipcamp_booking (line 880): the exception that
\* leaves the function, None when it is caught.
except_Exception(exc) == None

\* Variant: without the finally clause.
finally_keep_session(in_try) == in_try

\* "finally: self._session_id = None" (lines 883-885); in_try is what the try
\* block leaves in _session_id ("same" when it has not assigned it).
finally_clear_session(in_try) == None

\* create_hipcamp_booking: [booking_id, created, calls, session_id, outcome,
\* raised]; outcome names the branch taken (the log line written), raised is
\* the exception that leaves the function; session_id is _session_id after
\* the call ("same" when the call has not touched it).
create_hipcamp_booking(event, customer_info, reply, fresh_id) ==
    LET hipcamp_site_name ==
            site_of_display_name(SITE_DISPLAY_NAMES, split_first(event.summary))
        cf_mapping == DictGet(HIPCAMP_TO_CHECKFRONT, hipcamp_site_name)
        session == create_booking_session(reply)
        item == add_item_to_session(reply)
        booking == create_booking(session.session_id, customer_info, reply,
                                  fresh_id)
        nothing(calls, outcome, exc, form) ==
            [booking_id |-> None, created |-> FALSE, calls |-> calls,
             form |-> form,
             session_id |->
                 finally_clear_session(
                     IF calls = <<>> \/ reply.session = "raise" THEN "same"
                     ELSE session.session_id),
             outcome |-> outcome,
             raised |-> IF exc = None THEN None ELSE except_Exception(exc)]
    IN IF ~Truthy(hipcamp_site_name)
       THEN nothing(<<>>, "no_site", None, NoForm)
       ELSE IF ~Truthy(cf_mapping)
       THEN nothing(<<>>, "no_mapping", None, NoForm)
       ELSE IF session.raised # None
       THEN nothing(session.calls, "error", session.raised, NoForm)
       ELSE IF item.raised = "ValueError" /\ benign_unavailable(item.text)
       THEN nothing(session.calls \o item.calls, "unavailable_skip", None,
                    NoForm)
       ELSE IF item.raised # None
       THEN nothing(session.calls \o item.calls, "error", item.raised,
                    NoForm)
       ELSE IF booking.raised # None
       THEN nothing(session.calls \o item.calls \o booking.calls, "error",
                    booking.raised, booking.form)
       ELSE [booking_id |-> booking.booking_id, created |-> booking.created,
             calls |-> session.calls \o item.calls \o booking.calls,
             form |-> booking.form,
             session_id |-> finally_clear_session(session.session_id),
             outcome |-> IF Truthy(booking.booking_id) THEN "created"
                         ELSE "no_booking_id",
             raised |-> None]

\* TRUE when the attempt gets as far as opening a booking session.
opens_session(event) ==
    LET site == site_of_display_name(SITE_DISPLAY_NAMES,
                                     split_first(event.summary))
    IN Truthy(site) /\ Truthy(DictGet(HIPCAMP_TO_CHECKFRONT, site))


\* ------------------------------------------------------------------ state
VARIABLES
    pc,                    \* position of run_sync
    run,                   \* number of runs started
    now,                   \* datetime.now(timezone.utc) of the run
    faults,                \* failures the environment has injected so far
    calendar,              \* entries of the Google calendar
    next_event_id,         \* next id the calendar issues on insert
    bookings,              \* records of the booking system
    next_booking_id,       \* next id the booking system issues
    hipcamp_feeds,         \* VEVENTs served by each HipCamp site feed
    checkfront_feed,       \* VEVENTs served by the Checkfront feed
    google_events,         \* run_sync local: calendar read-back
    hipcamp_events,        \* run_sync local
    checkfront_events,     \* run_sync local
    hipcamp_to_checkfront, \* sync local: mapping queried at sync start
    existing_events_map,   \* sync local
    google_event_ids,      \* sync local
    new_events,            \* sync local
    todo,                  \* keys the current pass has still to visit
    session_id,            \* CheckfrontAPI._session_id
    ops,                   \* requests sent in the current run, in order
    fetch_failed,          \* feeds whose request failed in the current run
    attempts,              \* create_hipcamp_booking calls of the current run
    prev_clean,            \* the previous run completed without any failure
    prev_stop,             \* whether a crash stopped the previous run
    other,                 \* a second run_sync process: its position and locals
    configuration,         \* the module's site globals and the files of the run
    boundary               \* an entry point that an exception has reached

vars == <<pc, run, now, faults, calendar, next_event_id, bookings,
          next_booking_id, hipcamp_feeds, checkfront_feed, google_events,
          hipcamp_events, checkfront_events, hipcamp_to_checkfront,
          existing_events_map, google_event_ids, new_events, todo,
          session_id, ops, fetch_failed, attempts, prev_clean, prev_stop,
          other, configuration,
                   boundary>>

\* One request sent to the calendar or to the booking system.
NoKey == <<"", "">>
NoBody == [summary |-> <<>>, description |-> NoDescription,
           start |-> [kind |-> "date", v |-> 0],
           end |-> [kind |-> "date", v |-> 0], private |-> NoProps]

Op(op, key, event_id, ok, body) ==
    [op |-> op, key |-> key, event_id |-> event_id, ok |-> ok, body |-> body]

CfOps(calls, key) ==
    [i \in 1..Len(calls) |-> Op(calls[i], key, None, TRUE, NoBody)]


\* The second process before it has started.
\* The site globals of a new process are empty (lines 60-64).
NotLoaded == [loaded |-> FALSE, failure |-> "none"]

\* What a run can find wrong with its files: the site configuration or a
\* credentials file is missing or is not JSON.
ConfigurationFailures == {"none", "site_configuration", "credentials"}

\* load_site_configuration (lines 176-222): a missing or undecodable file is
\* logged with warn and the globals keep the values they had.
load_site_configuration(globals_loaded, failure) ==
    IF failure = "site_configuration" THEN globals_loaded ELSE TRUE

\* No exception has reached an entry point.
NoBoundary ==
    [entry |-> "none", verbose |-> 0, exception |-> "none",
     outcome |-> "running", logged |-> FALSE, level |-> "NORMAL"]

OtherIdle ==
    [pc |-> "idle", now |-> 0, google_events |-> <<>>,
     hipcamp_to_checkfront |-> <<>>, existing_events_map |-> <<>>,
     google_event_ids |-> <<>>, new_events |-> <<>>, todo |-> <<>>,
     ops |-> <<>>]

\* ------------------------------------------------------------------- Init
\* VEVENT of a HipCamp feed and of the Checkfront feed.
HipcampVEvent(guest, marker, start_day, end_day) ==
    [description |-> [guest |-> guest, phone |-> TRUE, marker |-> marker,
                      email |-> None],
     dtstart |-> Date(start_day), dtend |-> Date(end_day)]

CheckfrontVEvent(url, summary, location, start_tick, end_tick) ==
    [url |-> url, summary |-> summary, location |-> location,
     dtstart |-> DateTime(start_tick), dtend |-> DateTime(end_tick)]

\* A calendar entry as an earlier run of the script wrote it, and an entry
\* somebody made by hand.
ScriptEntry(id, source, source_id, summary, start_day, end_day) ==
    [id |-> id, summary |-> summary, description |-> NoDescription,
     start |-> [kind |-> "date", v |-> start_day],
     end |-> [kind |-> "date", v |-> end_day],
     private |-> [k \in {booking_id_prop(source), "synced_by_script"} |->
                    IF k = "synced_by_script" THEN "true" ELSE source_id]]

ManualEntry(id, summary, start_tick, end_tick) ==
    [id |-> id, summary |-> summary, description |-> NoDescription,
     start |-> [kind |-> "dateTime", v |-> start_tick],
     end |-> [kind |-> "dateTime", v |-> end_tick], private |-> NoProps]

Site1Feeds ==
    {<<>>,
     <<HipcampVEvent("Jane", "1", 1, 3)>>,
     <<HipcampVEvent("Jane", "1", 0, 2)>>,
     <<HipcampVEvent("Owner block", None, 1, 3)>>}

Site2Feeds == {<<>>, <<HipcampVEvent("Raj", "2", 2, 4)>>}

CheckfrontFeeds ==
    {<<>>, <<CheckfrontVEvent("1", <<"Ann">>, "HT2", 3, 5)>>}

Hip1Entries ==
    {<<>>,
     <<ScriptEntry("g1", "hipcamp", "1", <<"HT1", "-", "Jane", "Hipcamp">>, 1, 3)>>,
     <<ScriptEntry("g1", "hipcamp", "1", <<"HT1", "-", "J.", "Doe", "Hipcamp">>, 0, 2)>>}

Hip2Entries ==
    {<<>>,
     <<ScriptEntry("g2", "hipcamp", "2", <<"HT2", "-", "Raj", "Hipcamp">>, 2, 4)>>}

Cf1Entries ==
    {<<>>,
     <<ScriptEntry("g3", "checkfront", "1", <<"HT2", "-", "Ann", "Checkfront">>, 1, 2)>>}

ManualEntries == {<<>>, <<ManualEntry("g4", <<"Mowing">>, 5, 6)>>}

InitialBookings ==
    {<<>>,
     <<[id |-> "100", hipcamp_id |-> "1",
        customer_name |-> <<"Jane", "(HipCamp)">>,
        start_date |-> 1, end_date |-> 3]>>}

Init ==
    /\ pc = "idle"
    /\ run = 0
    /\ now = 4
    /\ faults = 0
    /\ \E h1 \in Hip1Entries, h2 \in Hip2Entries, c1 \in Cf1Entries,
          m \in ManualEntries : calendar = h1 \o h2 \o c1 \o m
    /\ next_event_id = 1
    /\ bookings \in InitialBookings
    /\ next_booking_id = 101
    /\ \E f1 \in Site1Feeds, f2 \in Site2Feeds :
          hipcamp_feeds = [site \in Range(HIPCAMP_ICAL_URLS) |->
                              IF site = HIPCAMP_ICAL_URLS[1] THEN f1 ELSE f2]
    /\ checkfront_feed \in CheckfrontFeeds
    /\ google_events = <<>>
    /\ hipcamp_events = <<>>
    /\ checkfront_events = <<>>
    /\ hipcamp_to_checkfront = <<>>
    /\ existing_events_map = <<>>
    /\ google_event_ids = <<>>
    /\ new_events = <<>>
    /\ todo = <<>>
    /\ session_id = "unset"
    /\ ops = <<>>
    /\ fetch_failed = {}
    /\ attempts = <<>>
    /\ prev_clean = FALSE
    /\ prev_stop = "none"
    /\ other = OtherIdle
    /\ configuration = NotLoaded
    /\ boundary = NoBoundary

\* ---------------------------------------------------------------- actions
CanFail == faults < MaxFaults

RunClean == \A i \in 1..Len(ops) : ops[i].ok

\* run_sync is entered: configuration and credentials are loaded, the service
\* is built and "DBR Camping" is found in the calendar list.  The account
\* has no "<code> Checkfront" calendar, so the loop over site_calendars
\* (lines 1830-1858) has nothing to do.  CheckfrontAPI.__init__ (lines
\* 281-286) does not set _session_id, so the new client has none.
\* A run starts in a new process or (warm) in the process of the run before,
\* whose globals it inherits.  load_checkfront_credentials (line 1753) and
\* get_google_credentials (line 1762) raise on a missing or undecodable file.
EnterRun(failure, warm) ==
    /\ pc \in {"idle", "done", "raised", "crashed"}
    /\ run < MaxRuns
    /\ run' = run + 1
    /\ now' \in {now, now + 1}
    /\ faults' = IF failure = "none" THEN faults ELSE faults + 1
    /\ configuration' =
          [loaded |-> load_site_configuration(warm, failure),
           failure |-> failure]
    /\ pc' = IF failure = "credentials" THEN "raised" ELSE "list_calendar"
    /\ prev_clean' = (pc = "done" /\ RunClean /\ fetch_failed = {})
    /\ prev_stop' = IF pc = "crashed" THEN "crashed" ELSE "ended"
    /\ ops' = <<>>
    /\ fetch_failed' = {}
    /\ attempts' = <<>>
    /\ google_events' = <<>>
    /\ hipcamp_events' = <<>>
    /\ checkfront_events' = <<>>
    /\ hipcamp_to_checkfront' = <<>>
    /\ existing_events_map' = <<>>
    /\ google_event_ids' = <<>>
    /\ new_events' = <<>>
    /\ todo' = <<>>
    /\ session_id' = "unset"
    /\ UNCHANGED <<calendar, next_event_id, bookings, next_booking_id,
                   hipcamp_feeds, checkfront_feed, other, boundary>>

\* A run whose files are all readable.
StartRun == EnterRun("none", FALSE)

\* A run that finds the site configuration or a credentials file missing or
\* undecodable, in a new process or (warm) in the process of the run before.
StartRunUnreadable ==
    /\ CanFail
    /\ \E failure \in ConfigurationFailures \ {"none"}, warm \in BOOLEAN :
          /\ warm => /\ failure = "site_configuration"
                     /\ pc \in {"done", "raised"}
                     /\ configuration.loaded
          /\ EnterRun(failure, warm)

\* google_events = get_google_calendar_events(service, id, now - 90 days)
ListCalendar ==
    /\ pc = "list_calendar"
    /\ \E failed \in BOOLEAN :
          /\ failed => CanFail
          /\ faults' = IF failed THEN faults + 1 ELSE faults
          /\ google_events' =
                get_google_calendar_events(
                    calendar, now - SYNC_RANGE_DAYS * TicksPerDay, failed)
          /\ ops' = Append(ops, Op("list", NoKey, None, ~failed, NoBody))
    /\ pc' = "fetch_hipcamp"
    /\ UNCHANGED <<run, now, calendar, next_event_id, bookings,
                   next_booking_id, hipcamp_feeds, checkfront_feed,
                   hipcamp_events, checkfront_events, hipcamp_to_checkfront,
                   existing_events_map, google_event_ids, new_events, todo,
                   session_id, fetch_failed, attempts, prev_clean,
                   prev_stop, other, configuration,
                   boundary>>

\* hipcamp_events = fetch_hipcamp_events(): one request per entry of
\* HIPCAMP_ICAL_URLS, which is empty when no site configuration was loaded.
FetchHipcamp ==
    /\ pc = "fetch_hipcamp"
    /\ \E failed \in SUBSET (IF configuration.loaded
                              THEN Range(HIPCAMP_ICAL_URLS) ELSE {}) :
          /\ faults + Cardinality(failed) <= MaxFaults
          /\ faults' = faults + Cardinality(failed)
          /\ hipcamp_events' =
                IF configuration.loaded
                THEN fetch_hipcamp_events(hipcamp_feeds, failed) ELSE <<>>
          /\ fetch_failed' = fetch_failed \cup failed
    /\ pc' = "fetch_checkfront"
    /\ UNCHANGED <<run, now, calendar, next_event_id, bookings,
                   next_booking_id, hipcamp_feeds, checkfront_feed,
                   google_events, checkfront_events, hipcamp_to_checkfront,
                   existing_events_map, google_event_ids, new_events, todo,
                   session_id, ops, attempts, prev_clean,
                   prev_stop, other, configuration,
                   boundary>>

\* checkfront_events = fetch_checkfront_events(); with CHECKFRONT_ICAL_URL
\* empty requests.get("") raises MissingSchema, caught at line 1291.
FetchCheckfront ==
    /\ pc = "fetch_checkfront"
    /\ \E failed \in (IF configuration.loaded THEN BOOLEAN ELSE {TRUE}) :
          /\ (failed /\ configuration.loaded) => CanFail
          /\ faults' = IF failed /\ configuration.loaded
                       THEN faults + 1 ELSE faults
          /\ checkfront_events' = fetch_checkfront_events(checkfront_feed, failed)
          /\ fetch_failed' =
                IF failed THEN fetch_failed \cup {"checkfront"} ELSE fetch_failed
    /\ pc' = "sync"
    /\ UNCHANGED <<run, now, calendar, next_event_id, bookings,
                   next_booking_id, hipcamp_feeds, checkfront_feed,
                   google_events, hipcamp_events, hipcamp_to_checkfront,
                   existing_events_map, google_event_ids, new_events, todo,
                   session_id, ops, attempts, prev_clean,
                   prev_stop, other, configuration,
                   boundary>>

\* Variant: the deletion loop is left out.
AfterDeletion_skipped(rest, new) ==
    IF new # <<>> THEN [pc |-> "upsert_pass", todo |-> DictKeys(new)]
    ELSE [pc |-> "done", todo |-> <<>>]
\* Where the loops of sync_events_to_calendar stand once `rest` is what the
\* deletion pass has still to visit.
AfterDeletion(rest, new) ==
    IF rest # <<>> THEN [pc |-> "delete_pass", todo |-> rest]
    ELSE IF new # <<>> THEN [pc |-> "upsert_pass", todo |-> DictKeys(new)]
    ELSE [pc |-> "done", todo |-> <<>>]

AfterUpsert(rest) ==
    IF rest # <<>> THEN [pc |-> "upsert_pass", todo |-> rest]
    ELSE [pc |-> "done", todo |-> <<>>]

\* sync_events_to_calendar up to the first loop (lines 1446-1513): the mapping
\* query (not guarded: its exception leaves run_sync) and the three maps.
\* With CHECKFRONT_HOST empty the URL of line 318 has no host and requests
\* raises InvalidURL before anything is sent.
SyncStart ==
    /\ pc = "sync"
    /\ \E failed \in (IF configuration.loaded THEN BOOLEAN ELSE {TRUE}) :
          /\ (failed /\ configuration.loaded) => CanFail
          /\ faults' = IF failed /\ configuration.loaded
                       THEN faults + 1 ELSE faults
          /\ ops' = IF configuration.loaded
                    THEN Append(ops, Op("event", NoKey, None, ~failed, NoBody))
                    ELSE ops
          /\ IF failed
             THEN /\ pc' = "raised"
                  /\ UNCHANGED <<hipcamp_to_checkfront, existing_events_map,
                                 google_event_ids, new_events, todo>>
             ELSE LET new == build_new_events(hipcamp_events,
                                              checkfront_events, now)
                      existing == build_existing_events_map(google_events)
                      next == AfterDeletion(DictKeys(existing), new)
                  IN /\ hipcamp_to_checkfront' =
                            get_hipcamp_event_mapping(bookings)
                     /\ existing_events_map' = existing
                     /\ google_event_ids' =
                            build_google_event_ids(google_events)
                     /\ new_events' = new
                     /\ pc' = next.pc
                     /\ todo' = next.todo
    /\ UNCHANGED <<run, now, calendar, next_event_id, bookings,
                   next_booking_id, hipcamp_feeds, checkfront_feed,
                   google_events, hipcamp_events, checkfront_events,
                   session_id, fetch_failed, attempts, prev_clean,
                   prev_stop, other, configuration,
                   boundary>>


\* Variant: the delete request is sent whether or not a record maps to the id.
delete_hipcamp_booking_unguarded(bks, hipcamp_id, answer) ==
    LET checkfront_booking_id ==
            DictGet(get_hipcamp_event_mapping(bks), hipcamp_id)
    IN IF answer = "list_raise"
       THEN [bookings |-> bks, calls |-> <<"event">>, deleted |-> FALSE]
       ELSE IF answer = "delete_raise"
       THEN [bookings |-> bks, calls |-> <<"event", "booking/delete">>,
             deleted |-> FALSE]
       ELSE [bookings |-> SelectSeq(bks, LAMBDA b :
                                       b.id # checkfront_booking_id),
             calls |-> <<"event", "booking/delete">>, deleted |-> TRUE]
\* delete_hipcamp_booking (with delete_booking): [bookings, calls, deleted].
\* answer is what the booking system does: "ok", "list_raise" (the listing
\* request raises) or "delete_raise" (the DELETE request raises); both
\* exceptions are caught and give False.
delete_hipcamp_booking(bks, hipcamp_id, answer) ==
    LET checkfront_booking_id ==
            DictGet(get_hipcamp_event_mapping(bks), hipcamp_id)
    IN IF answer = "list_raise"
       THEN [bookings |-> bks, calls |-> <<"event">>, deleted |-> FALSE]
       ELSE IF ~Truthy(checkfront_booking_id)
       THEN [bookings |-> bks, calls |-> <<"event">>, deleted |-> FALSE]
       ELSE IF answer = "delete_raise"
       THEN [bookings |-> bks, calls |-> <<"event", "booking/delete">>,
             deleted |-> FALSE]
       ELSE [bookings |-> SelectSeq(bks, LAMBDA b :
                                       b.id # checkfront_booking_id),
             calls |-> <<"event", "booking/delete">>, deleted |-> TRUE]

\* Variant: only the insufficient-permission error is caught.
except_HttpError_permission_only(exc, kind) ==
    IF exc = "HttpError" /\ kind = "insufficientPermissions" THEN None ELSE exc

\* "except HttpError" of the two loops (lines 1554 and 1730): the exception
\* that leaves the iteration, None when it is caught.  kind is the reason the
\* calendar gave ("insufficientPermissions" or another).
except_HttpError(exc, kind) == IF exc = "HttpError" THEN None ELSE exc

\* The calendar's answers to one write, and the booking system's to a delete.
WriteAnswers == {"ok", "insufficientPermissions", "backendError"}

DeleteAnswers ==
    {[write |-> w, cf |-> "ok"] : w \in WriteAnswers}
    \cup {[write |-> "ok", cf |-> "list_raise"],
          [write |-> "ok", cf |-> "delete_raise"]}

DeleteOk == [write |-> "ok", cf |-> "ok"]

\* Variant: the deletion pass does not look the key up in new_events.
deletes_key_listed(key, existing, ids, new, t) ==
    /\ not_ended(DictGet(existing, key), t)
    /\ Truthy(DictGet(ids, key))
\* Variant: without the past-event check.
deletes_key_no_past_check(key, existing, ids, new, t) ==
    /\ ~DictHas(new, key)
    /\ Truthy(DictGet(ids, key))

\* TRUE when the deletion pass deletes the entry of key (lines 1517-1528).
deletes_key(key, existing, ids, new, t) ==
    /\ ~DictHas(new, key)
    /\ not_ended(DictGet(existing, key), t)
    /\ Truthy(DictGet(ids, key))

\* Variant: the booking is deleted whether or not the calendar delete raised.
deletes_booking_unaccepted(accepted, event) ==
    /\ event.source = "hipcamp"
    /\ Truthy(event.source_id)
\* TRUE when the iteration goes on to delete_hipcamp_booking (lines
\* 1529-1543): the calendar delete did not raise, the event is a hipcamp
\* event and it has a source_id.
deletes_booking(accepted, event) ==
    /\ accepted
    /\ event.source = "hipcamp"
    /\ Truthy(event.source_id)

\* One iteration of the deletion loop (lines 1516-1562):
\* [calendar, bookings, ops, used, raised].
delete_key(key, event, answer, cal, bks, existing, ids, new, t) ==
    LET google_event_id == DictGet(ids, key)
        accepted == answer.write = "ok" /\ HasEntry(cal, google_event_id)
        with_booking == deletes_booking(accepted, event)
        cf == IF with_booking
              THEN delete_hipcamp_booking(bks, event.source_id, answer.cf)
              ELSE [bookings |-> bks, calls |-> <<>>, deleted |-> FALSE]
    IN IF ~deletes_key(key, existing, ids, new, t)
       THEN [calendar |-> cal, bookings |-> bks, ops |-> <<>>, used |-> {},
             raised |-> None]
       ELSE [calendar |-> IF accepted THEN events_delete(cal, google_event_id)
                          ELSE cal,
             bookings |-> cf.bookings,
             ops |-> <<Op("delete", key, google_event_id, accepted, NoBody)>>
                     \o CfOps(cf.calls, key),
             used |-> {"write"}
                      \cup (IF with_booking THEN {"list_raise"} ELSE {})
                      \cup (IF "booking/delete" \in Range(cf.calls)
                            THEN {"delete_raise"} ELSE {}),
             raised |-> IF accepted THEN None
                        ELSE except_HttpError("HttpError", answer.write)]

DeleteStep ==
    /\ pc = "delete_pass"
    /\ todo # <<>>
    /\ \E answer \in DeleteAnswers :
          LET key == Head(todo)
              next == AfterDeletion(Tail(todo), new_events)
          IN \E r \in {delete_key(key, DictGet(existing_events_map, key), answer,
                          calendar, bookings, existing_events_map,
                          google_event_ids, new_events, now)} :
             /\ answer # DeleteOk => CanFail
             /\ answer.write # "ok" => "write" \in r.used
             /\ answer.cf # "ok" => answer.cf \in r.used
             /\ faults' = IF answer = DeleteOk THEN faults ELSE faults + 1
             /\ calendar' = r.calendar
             /\ bookings' = r.bookings
             /\ ops' = ops \o r.ops
             /\ pc' = IF r.raised # None THEN "raised" ELSE next.pc
             /\ todo' = IF r.raised # None THEN todo ELSE next.todo
    /\ UNCHANGED <<run, now, next_event_id, next_booking_id, hipcamp_feeds,
                   checkfront_feed, google_events, hipcamp_events,
                   checkfront_events, hipcamp_to_checkfront,
                   existing_events_map, google_event_ids, new_events,
                   session_id, fetch_failed, attempts, prev_clean,
                   prev_stop, other, configuration,
                   boundary>>

\* What the environment answers during one iteration of the upsert loop: the
\* calendar write, the propagation attempt and the enrichment write.
UpsertAnswers ==
    {[write |-> "ok", reply |-> r, enrich |-> "ok"] : r \in PropagationReplies}
    \cup {[write |-> w, reply |-> OkReply, enrich |-> "ok"] :
             w \in WriteAnswers}
    \cup {[write |-> "ok", reply |-> OkReply, enrich |-> w] :
             w \in WriteAnswers}

AllOk == [write |-> "ok", reply |-> OkReply, enrich |-> "ok"]

\* Variant: an entry is taken as existing when its title and dates match.
is_existing_by_title(existing, key, event) ==
    \E i \in 1..Len(existing) :
        /\ existing[i][2].summary = summary_with_source(event.summary, key[1])
        /\ normalize_datetime(existing[i][2].end_time)
              = strftime(event.end_time) * TicksPerDay

\* Variant: only checkfront keys are looked up in the read-back.
is_existing_checkfront_only(existing, key, event) ==
    key[1] = "checkfront" /\ DictHas(existing, key)
\* "key in existing_events_map" (line 1605).
is_existing(existing, key, event) == DictHas(existing, key)

\* Variant: the source of the key is not looked at.
propagates_any_source(written, key, is_update, mapping) ==
    /\ written
    /\ (is_update => ~DictHas(mapping, key[2]))
\* Variant: propagation does not wait for the calendar write.
propagates_unwritten(written, key, is_update, mapping) ==
    /\ key[1] = "hipcamp"
    /\ (is_update => ~DictHas(mapping, key[2]))
\* TRUE when the iteration goes on to create_hipcamp_booking: the write did
\* not raise, the source is hipcamp (lines 1614, 1688) and, on the update
\* path, the id is not in the mapping (line 1636).
propagates(written, key, is_update, mapping) ==
    /\ written
    /\ key[1] = "hipcamp"
    /\ (is_update => ~DictHas(mapping, key[2]))

\* One iteration of the create-or-update loop (lines 1565-1738):
\* [calendar, bookings, google_event_ids, ops, used, inserted, booked,
\* session_id, attempt, raised]; used is the set of answer fields the
\* iteration consumed, attempt the create_hipcamp_booking call it made (a
\* sequence of zero or one records).
upsert_key(key, event, answer, cal, bks, existing, ids, mapping, t, fresh_event_id, fresh_booking_id) ==
    LET body == google_event_body(key, event)
        is_update == is_existing(existing, key, event)
        google_event_id == IF is_update THEN DictGet(ids, key)
                           ELSE fresh_event_id
        written ==
            IF is_update
            THEN answer.write = "ok" /\ HasEntry(cal, google_event_id)
            ELSE answer.write = "ok"
        cal1 == IF ~written THEN cal
                ELSE IF is_update THEN events_update(cal, google_event_id, body)
                ELSE events_insert(cal, google_event_id, body)
        write_op == Op(IF is_update THEN "update" ELSE "insert", key,
                       IF is_update THEN google_event_id ELSE None,
                       written, body)
        propagate == propagates(written, key, is_update, mapping)
        cf == create_hipcamp_booking(event, extract_customer_info(event),
                                     answer.reply, fresh_booking_id)
        bks1 == IF propagate /\ cf.created
                THEN Append(bks, [id |-> fresh_booking_id,
                                  hipcamp_id |-> event.source_id,
                                  customer_name |->
                                      DictGet(cf.form, "customer_name"),
                                  start_date |-> strftime(event.start_time),
                                  end_date |-> strftime(event.end_time)])
                ELSE bks
        enrich == propagate /\ cf.raised = None /\ Truthy(cf.booking_id)
        body2 == with_checkfront_id(body, cf.booking_id)
        enriched == enrich /\ answer.enrich = "ok"
                    /\ HasEntry(cal1, google_event_id)
        exc == IF ~written THEN except_HttpError("HttpError", answer.write)
               ELSE IF propagate /\ cf.raised # None
               THEN except_HttpError(cf.raised, "")
               ELSE IF enrich /\ ~enriched
               THEN except_HttpError("HttpError", answer.enrich)
               ELSE None
        unchanged == [calendar |-> cal, bookings |-> bks,
                      google_event_ids |-> ids, ops |-> <<>>, used |-> {},
                      inserted |-> FALSE, booked |-> FALSE,
                      session_id |-> "same", attempt |-> <<>>,
                      raised |-> None]
    IN IF ~not_ended(event, t) THEN unchanged
       ELSE IF is_update /\ ~Truthy(google_event_id) THEN unchanged
       ELSE [calendar |-> IF enriched
                          THEN events_update(cal1, google_event_id, body2)
                          ELSE cal1,
             bookings |-> bks1,
             google_event_ids |->
                IF ~is_update /\ written /\ (propagate => cf.raised = None)
                   /\ (enrich => enriched)
                THEN DictSet(ids, key, google_event_id) ELSE ids,
             ops |-> <<write_op>>
                     \o (IF propagate THEN CfOps(cf.calls, key) ELSE <<>>)
                     \o (IF enrich
                         THEN <<Op("update", key, google_event_id, enriched,
                                   body2)>>
                         ELSE <<>>),
             used |-> {"write"}
                      \cup (IF propagate /\ opens_session(event)
                            THEN {"reply"} ELSE {})
                      \cup (IF enrich THEN {"enrich"} ELSE {}),
             inserted |-> ~is_update /\ written,
             booked |-> propagate /\ cf.created,
             session_id |-> IF propagate THEN cf.session_id ELSE "same",
             attempt |-> IF propagate
                         THEN <<[key |-> key, reply |-> answer.reply,
                                 booking_id |-> cf.booking_id,
                                 outcome |-> cf.outcome, calls |-> cf.calls,
                                 raised |-> cf.raised,
                                 event_id |-> google_event_id,
                                 body |-> body,
                                 customer_info |->
                                     extract_customer_info(event),
                                 form |-> cf.form]>>
                         ELSE <<>>,
             raised |-> exc]

UpsertStep ==
    /\ pc = "upsert_pass"
    /\ todo # <<>>
    /\ \E answer \in UpsertAnswers :
          LET key == Head(todo)
              next == AfterUpsert(Tail(todo))
          IN \E r \in {upsert_key(key, DictGet(new_events, key), answer, calendar,
                          bookings, existing_events_map, google_event_ids,
                          hipcamp_to_checkfront, now,
                          ToString(next_event_id),
                          ToString(next_booking_id))} :
             /\ answer # AllOk => CanFail
             /\ answer.write # "ok" => "write" \in r.used
             /\ answer.reply # OkReply => "reply" \in r.used
             /\ answer.enrich # "ok" => "enrich" \in r.used
             /\ faults' = IF answer = AllOk THEN faults ELSE faults + 1
             /\ calendar' = r.calendar
             /\ bookings' = r.bookings
             /\ google_event_ids' = r.google_event_ids
             /\ ops' = ops \o r.ops
             /\ attempts' = attempts \o r.attempt
             /\ next_event_id' = IF r.inserted THEN next_event_id + 1
                                 ELSE next_event_id
             /\ next_booking_id' = IF r.booked THEN next_booking_id + 1
                                   ELSE next_booking_id
             /\ session_id' = IF r.session_id = "same" THEN session_id
                              ELSE r.session_id
             /\ pc' = IF r.raised # None THEN "raised" ELSE next.pc
             /\ todo' = IF r.raised # None THEN todo ELSE next.todo
    /\ UNCHANGED <<run, now, hipcamp_feeds, checkfront_feed, google_events,
                   hipcamp_events, checkfront_events, hipcamp_to_checkfront,
                   existing_events_map, new_events, fetch_failed, prev_clean,
                   prev_stop, other, configuration,
                   boundary>>

\* The process is stopped (killed, timed out) between two steps of run_sync.
Running ==
    {"list_calendar", "fetch_hipcamp", "fetch_checkfront", "sync",
     "delete_pass", "upsert_pass"}

Crash ==
    /\ pc \in Running
    /\ CanFail
    /\ faults' = faults + 1
    /\ pc' = "crashed"
    /\ UNCHANGED <<run, now, calendar, next_event_id, bookings,
                   next_booking_id, hipcamp_feeds, checkfront_feed,
                   google_events, hipcamp_events, checkfront_events,
                   hipcamp_to_checkfront, existing_events_map,
                   google_event_ids, new_events, todo, session_id, ops,
                   fetch_failed, attempts, prev_clean, prev_stop, other, configuration,
                   boundary>>

\* The process is stopped inside an iteration of the deletion loop, after the
\* calendar has accepted the delete (line 1532) and before the booking is
\* looked up (line 1542).
CrashInDelete ==
    /\ pc = "delete_pass"
    /\ todo # <<>>
    /\ CanFail
    /\ LET key == Head(todo)
           google_event_id == DictGet(google_event_ids, key)
       IN /\ deletes_key(key, existing_events_map, google_event_ids,
                         new_events, now)
          /\ HasEntry(calendar, google_event_id)
          /\ calendar' = events_delete(calendar, google_event_id)
          /\ ops' = Append(ops, Op("delete", key, google_event_id, TRUE,
                                   NoBody))
    /\ faults' = faults + 1
    /\ pc' = "crashed"
    /\ UNCHANGED <<run, now, next_event_id, bookings, next_booking_id,
                   hipcamp_feeds, checkfront_feed, google_events,
                   hipcamp_events, checkfront_events, hipcamp_to_checkfront,
                   existing_events_map, google_event_ids, new_events, todo,
                   session_id, fetch_failed, attempts, prev_clean, prev_stop, other, configuration,
                   boundary>>

\* The process is stopped inside an iteration of the create-or-update loop:
\* after the calendar has accepted the write (lines 1613, 1687), or after the
\* booking system has created the booking and before the enrichment write
\* (lines 1655, 1712).
CrashInUpsert ==
    /\ pc = "upsert_pass"
    /\ todo # <<>>
    /\ CanFail
    /\ \E after_create \in BOOLEAN :
          LET key == Head(todo)
          IN \E r \in {upsert_key(key, DictGet(new_events, key), AllOk, calendar,
                          bookings, existing_events_map, google_event_ids,
                          hipcamp_to_checkfront, now,
                          ToString(next_event_id),
                          ToString(next_booking_id))} :
             LET write_op == r.ops[1]
                 enriches == r.ops[Len(r.ops)].op = "update" /\ Len(r.ops) > 1
             IN /\ r.ops # <<>>
                /\ after_create => (r.booked /\ enriches)
                /\ calendar' =
                      IF r.inserted
                      THEN events_insert(calendar, ToString(next_event_id),
                                         write_op.body)
                      ELSE events_update(calendar, write_op.event_id,
                                         write_op.body)
                /\ bookings' = IF after_create THEN r.bookings ELSE bookings
                /\ ops' = ops \o (IF after_create
                                  THEN SubSeq(r.ops, 1, Len(r.ops) - 1)
                                  ELSE <<write_op>>)
                /\ next_event_id' = IF r.inserted THEN next_event_id + 1
                                    ELSE next_event_id
                /\ next_booking_id' = IF after_create THEN next_booking_id + 1
                                      ELSE next_booking_id
    /\ faults' = faults + 1
    /\ pc' = "crashed"
    /\ UNCHANGED <<run, now, hipcamp_feeds, checkfront_feed, google_events,
                   hipcamp_events, checkfront_events, hipcamp_to_checkfront,
                   existing_events_map, google_event_ids, new_events, todo,
                   session_id, fetch_failed, attempts, prev_clean, prev_stop, other, configuration,
                   boundary>>
Next ==
    \/ StartRun
    \/ ListCalendar
    \/ FetchHipcamp
    \/ FetchCheckfront
    \/ SyncStart
    \/ DeleteStep
    \/ UpsertStep

Spec == Init /\ [][Next]_vars

\* Runs that can find their files unreadable.
NextConfig ==
    \/ Next
    \/ StartRunUnreadable

SpecConfig == Init /\ [][NextConfig]_vars

\* Runs that a crash can stop, starting from a calendar that holds only what
\* the script wrote.
InitCrash ==
    /\ Init
    /\ \A i \in 1..Len(calendar) : calendar[i].private # NoProps

NextCrash ==
    \/ Next
    \/ Crash
    \/ CrashInDelete
    \/ CrashInUpsert

SpecCrash == InitCrash /\ [][NextCrash]_vars

\* ------------------------------------------------------ overlapping runs
\* A second invocation of run_sync against the same calendar, feeds and
\* booking system while the first is running (nothing in run_sync takes a
\* lock).  It keeps its locals in `other` and meets no failure.
LocalVars ==
    <<pc, run, now, faults, hipcamp_feeds, checkfront_feed, google_events,
      hipcamp_events, checkfront_events, hipcamp_to_checkfront,
      existing_events_map, google_event_ids, new_events, todo, session_id,
      ops, fetch_failed, attempts, prev_clean, prev_stop, configuration>>

\* now and google_events of the second process (lines 1785-1793).
OtherList ==
    /\ other.pc = "idle"
    /\ other' = [other EXCEPT
          !.pc = "sync",
          !.now = now,
          !.google_events =
              get_google_calendar_events(
                  calendar, now - SYNC_RANGE_DAYS * TicksPerDay, FALSE),
          !.ops = <<Op("list", NoKey, None, TRUE, NoBody)>>]
    /\ UNCHANGED <<LocalVars, boundary, calendar, next_event_id, bookings,
                   next_booking_id>>

\* The fetches and sync_events_to_calendar up to the first loop.
OtherSync ==
    /\ other.pc = "sync"
    /\ LET new == build_new_events(
                      fetch_hipcamp_events(hipcamp_feeds, {}),
                      fetch_checkfront_events(checkfront_feed, FALSE),
                      other.now)
           existing == build_existing_events_map(other.google_events)
           next == AfterDeletion(DictKeys(existing), new)
       IN other' = [other EXCEPT
             !.pc = next.pc,
             !.todo = next.todo,
             !.hipcamp_to_checkfront = get_hipcamp_event_mapping(bookings),
             !.existing_events_map = existing,
             !.google_event_ids = build_google_event_ids(other.google_events),
             !.new_events = new,
             !.ops = Append(@, Op("event", NoKey, None, TRUE, NoBody))]
    /\ UNCHANGED <<LocalVars, boundary, calendar, next_event_id, bookings,
                   next_booking_id>>

OtherDeleteStep ==
    /\ other.pc = "delete_pass"
    /\ other.todo # <<>>
    /\ LET key == Head(other.todo)
           next == AfterDeletion(Tail(other.todo), other.new_events)
       IN \E r \in {delete_key(key, DictGet(other.existing_events_map, key),
                       DeleteOk, calendar, bookings,
                       other.existing_events_map, other.google_event_ids,
                       other.new_events, other.now)} :
          /\ calendar' = r.calendar
          /\ bookings' = r.bookings
          /\ other' = [other EXCEPT !.pc = next.pc, !.todo = next.todo,
                                    !.ops = @ \o r.ops]
    /\ UNCHANGED <<LocalVars, boundary, next_event_id, next_booking_id>>

OtherUpsertStep ==
    /\ other.pc = "upsert_pass"
    /\ other.todo # <<>>
    /\ LET key == Head(other.todo)
           next == AfterUpsert(Tail(other.todo))
       IN \E r \in {upsert_key(key, DictGet(other.new_events, key), AllOk,
                       calendar, bookings, other.existing_events_map,
                       other.google_event_ids,
                       other.hipcamp_to_checkfront, other.now,
                       ToString(next_event_id), ToString(next_booking_id))} :
          /\ calendar' = r.calendar
          /\ bookings' = r.bookings
          /\ next_event_id' = IF r.inserted THEN next_event_id + 1
                              ELSE next_event_id
          /\ next_booking_id' = IF r.booked THEN next_booking_id + 1
                                ELSE next_booking_id
          /\ other' = [other EXCEPT !.pc = next.pc, !.todo = next.todo,
                                    !.google_event_ids = r.google_event_ids,
                                    !.ops = @ \o r.ops]
    /\ UNCHANGED <<LocalVars, boundary>>

\* One run of each process, and no failure: the budget of failures is used
\* up and one run is left.
InitOverlap ==
    /\ pc = "idle"
    /\ run = MaxRuns - 1
    /\ now = 4
    /\ faults = MaxFaults
    /\ \E h1 \in Hip1Entries, h2 \in Hip2Entries, c1 \in Cf1Entries,
          m \in ManualEntries : calendar = h1 \o h2 \o c1 \o m
    /\ next_event_id = 1
    /\ bookings \in InitialBookings
    /\ next_booking_id = 101
    /\ \E f1 \in Site1Feeds, f2 \in Site2Feeds :
          hipcamp_feeds = [site \in Range(HIPCAMP_ICAL_URLS) |->
                              IF site = HIPCAMP_ICAL_URLS[1] THEN f1 ELSE f2]
    /\ checkfront_feed \in CheckfrontFeeds
    /\ google_events = <<>>
    /\ hipcamp_events = <<>>
    /\ checkfront_events = <<>>
    /\ hipcamp_to_checkfront = <<>>
    /\ existing_events_map = <<>>
    /\ google_event_ids = <<>>
    /\ new_events = <<>>
    /\ todo = <<>>
    /\ session_id = "unset"
    /\ ops = <<>>
    /\ fetch_failed = {}
    /\ attempts = <<>>
    /\ prev_clean = FALSE
    /\ prev_stop = "none"
    /\ other = OtherIdle
    /\ configuration = NotLoaded
    /\ boundary = NoBoundary

NextOverlap ==
    \/ StartRun
    \/ ListCalendar
    \/ FetchHipcamp
    \/ FetchCheckfront
    \/ SyncStart
    \/ DeleteStep
    \/ UpsertStep
    \/ OtherList
    \/ OtherSync
    \/ OtherDeleteStep
    \/ OtherUpsertStep

SpecOverlap == InitOverlap /\ [][NextOverlap]_vars

\* ------------------------------------------------------------ entry points
\* The outermost boundaries: main of the packaged CLI (cli.py), the packaged
\* lambda handler, the lambda handler of camp_sync and main of camp_sync.
\* An exception raised inside reaches the boundary, which logs through
\* Logger and returns, answers with a status or lets the exception go on.
LogLevel == [NORMAL |-> 1, WARN |-> 2, DEBUG |-> 3]

\* Logger.log prints when level.value <= self.level.value.
Logger_log(self_level, level) == LogLevel[level] <= LogLevel[self_level]

\* cli.py get_log_level: no -v gives NORMAL, -v WARN, -vv DEBUG.
get_log_level(verbose_count) ==
    IF verbose_count >= 2 THEN "DEBUG"
    ELSE IF verbose_count = 1 THEN "WARN" ELSE "NORMAL"

\* LOG_LEVEL of the lambda handlers (default "NORMAL"), by number of the level.
env_log_level(verbose) ==
    IF verbose >= 2 THEN "DEBUG"
    ELSE IF verbose = 1 THEN "WARN" ELSE "NORMAL"

Entries == {"cli_main", "packaged_lambda_handler", "lambda_handler", "main"}

Exceptions ==
    {"FileNotFoundError", "JSONDecodeError", "HttpError", "KeyError",
     "RequestException", "ValueError"}

Verbosities == 0..2

\* main of cli.py (lines 137-228): three except clauses that log with warn
\* and fall off the end of main; any other exception leaves main, and the
\* interpreter prints its traceback.
CliMain ==
    /\ boundary.entry = "cli_main"
    /\ boundary.outcome = "running"
    /\ boundary' =
          IF boundary.exception
                \in {"FileNotFoundError", "JSONDecodeError", "HttpError"}
          THEN [boundary EXCEPT
                  !.level = get_log_level(boundary.verbose),
                  !.outcome = "returned",
                  !.logged = Logger_log(get_log_level(boundary.verbose),
                                        "WARN")]
          ELSE [boundary EXCEPT
                  !.level = get_log_level(boundary.verbose),
                  !.outcome = "raised", !.logged = TRUE]
    /\ UNCHANGED <<LocalVars, calendar, next_event_id, bookings,
                   next_booking_id, other>>

\* lambda_handler of the package (lines 149-169): every exception is logged
\* with warn and becomes a status.
PackagedLambdaHandler ==
    /\ boundary.entry = "packaged_lambda_handler"
    /\ boundary.outcome = "running"
    /\ boundary' =
          [boundary EXCEPT
             !.level = env_log_level(boundary.verbose),
             !.outcome =
                 IF boundary.exception \in {"KeyError", "JSONDecodeError"}
                 THEN "status 400" ELSE "status 500",
             !.logged = Logger_log(env_log_level(boundary.verbose), "WARN")]
    /\ UNCHANGED <<LocalVars, calendar, next_event_id, bookings,
                   next_booking_id, other>>

\* lambda_handler of camp_sync (lines 187-199): warn, then print (which no
\* level silences), then raise.
LambdaHandler ==
    /\ boundary.entry = "lambda_handler"
    /\ boundary.outcome = "running"
    /\ boundary' =
          [boundary EXCEPT
             !.level = env_log_level(boundary.verbose),
             !.outcome = "raised",
             !.logged = TRUE]
    /\ UNCHANGED <<LocalVars, calendar, next_event_id, bookings,
                   next_booking_id, other>>

\* The level main of camp_sync leaves in the module's logger (core.py lines
\* 1873-1877): two or more -v set DEBUG, one -v sets NORMAL, none leaves the
\* level the logger was made with.
main_log_level(level, verbose) ==
    IF verbose >= 2 THEN "DEBUG"
    ELSE IF verbose = 1 THEN "NORMAL" ELSE level

\* main of camp_sync (core.py lines 1861-1880): the level is set from the
\* count of -v, run_sync() is not guarded, the exception leaves main and the
\* interpreter prints its traceback.
Main ==
    /\ boundary.entry = "main"
    /\ boundary.outcome = "running"
    /\ boundary' = [boundary EXCEPT
                      !.level = main_log_level(boundary.level,
                                               boundary.verbose),
                      !.outcome = "raised", !.logged = TRUE]
    /\ UNCHANGED <<LocalVars, calendar, next_event_id, bookings,
                   next_booking_id, other>>

\* An exception of each kind has reached each entry point at each verbosity.
InitBoundary ==
    /\ pc = "raised"
    /\ run = MaxRuns
    /\ now = 4
    /\ faults = MaxFaults
    /\ calendar = <<>>
    /\ next_event_id = 1
    /\ bookings = <<>>
    /\ next_booking_id = 101
    /\ hipcamp_feeds = [site \in Range(HIPCAMP_ICAL_URLS) |-> <<>>]
    /\ checkfront_feed = <<>>
    /\ google_events = <<>>
    /\ hipcamp_events = <<>>
    /\ checkfront_events = <<>>
    /\ hipcamp_to_checkfront = <<>>
    /\ existing_events_map = <<>>
    /\ google_event_ids = <<>>
    /\ new_events = <<>>
    /\ todo = <<>>
    /\ session_id = "unset"
    /\ ops = <<>>
    /\ fetch_failed = {}
    /\ attempts = <<>>
    /\ prev_clean = FALSE
    /\ prev_stop = "none"
    /\ other = OtherIdle
    /\ configuration = NotLoaded
    /\ \E entry \in Entries, verbose \in Verbosities, exception \in Exceptions :
          boundary = [entry |-> entry, verbose |-> verbose,
                      exception |-> exception, outcome |-> "running",
                      logged |-> FALSE, level |-> "NORMAL"]

NextBoundary ==
    \/ CliMain
    \/ PackagedLambdaHandler
    \/ LambdaHandler
    \/ Main

SpecBoundary == InitBoundary /\ [][NextBoundary]_vars

\* ------------------------------------------------- create_booking by itself
\* CheckfrontAPI.create_booking called with a customer_info dict and a form
\* schema of the caller's choice, with or without an active session.
NameOptions == {<<>>, <<<<"name", <<>>>>>>, <<<<"name", <<"Ann">>>>>>}
EmailOptions == {<<>>, <<<<"email", <<>>>>>>, <<<<"email", <<"ann@example.com">>>>>>}
ExtraOptions ==
    {<<>>, <<<<"guest_count", <<>>>>>>, <<<<"guest_count", <<"2">>>>>>}

CustomerInfos ==
    {n \o e \o x : n \in NameOptions, e \in EmailOptions, x \in ExtraOptions}

\* Answers to booking/form and booking/create: the fields whose
\* define.layout.customer.required is 1, and the outcome of each request.
FormReplies ==
    {[OkReply EXCEPT !.required = fields] :
        fields \in SUBSET {"customer_name", "customer_email", "guest_count"}}
    \cup {[OkReply EXCEPT !.form = "raise"],
          [OkReply EXCEPT !.create = "raise"],
          [OkReply EXCEPT !.create = "ERROR"],
          [OkReply EXCEPT !.create = "noid"]}

CreateBooking ==
    /\ pc = "create_booking"
    /\ \E customer_info \in CustomerInfos, reply \in FormReplies :
          LET r == create_booking(session_id, customer_info, reply,
                                  ToString(next_booking_id))
          IN /\ ops' = ops \o CfOps(r.calls, NoKey)
             /\ attempts' =
                   Append(attempts,
                          [key |-> NoKey, reply |-> reply,
                           booking_id |-> r.booking_id,
                           outcome |-> IF r.raised # None THEN "error"
                                       ELSE IF Truthy(r.booking_id)
                                       THEN "created" ELSE "no_booking_id",
                           calls |-> r.calls, raised |-> r.raised,
                           event_id |-> None, body |-> NoBody,
                           customer_info |-> customer_info,
                           form |-> r.form])
             /\ bookings' =
                   IF r.created
                   THEN Append(bookings, [id |-> ToString(next_booking_id),
                                          hipcamp_id |-> None,
                                          customer_name |->
                                              DictGet(r.form, "customer_name"),
                                          start_date |-> None,
                                          end_date |-> None])
                   ELSE bookings
             /\ next_booking_id' = IF r.created THEN next_booking_id + 1
                                   ELSE next_booking_id
             /\ pc' = IF r.raised # None THEN "raised" ELSE "done"
    /\ UNCHANGED <<run, now, faults, calendar, next_event_id, hipcamp_feeds,
                   checkfront_feed, google_events, hipcamp_events,
                   checkfront_events, hipcamp_to_checkfront,
                   existing_events_map, google_event_ids, new_events, todo,
                   session_id, fetch_failed, prev_clean, prev_stop, other,
                   configuration, boundary>>

InitForm ==
    /\ pc = "create_booking"
    /\ run = MaxRuns
    /\ now = 4
    /\ faults = MaxFaults
    /\ calendar = <<>>
    /\ next_event_id = 1
    /\ bookings = <<>>
    /\ next_booking_id = 101
    /\ hipcamp_feeds = [site \in Range(HIPCAMP_ICAL_URLS) |-> <<>>]
    /\ checkfront_feed = <<>>
    /\ google_events = <<>>
    /\ hipcamp_events = <<>>
    /\ checkfront_events = <<>>
    /\ hipcamp_to_checkfront = <<>>
    /\ existing_events_map = <<>>
    /\ google_event_ids = <<>>
    /\ new_events = <<>>
    /\ todo = <<>>
    /\ session_id \in {"session", None}
    /\ ops = <<>>
    /\ fetch_failed = {}
    /\ attempts = <<>>
    /\ prev_clean = FALSE
    /\ prev_stop = "none"
    /\ other = OtherIdle
    /\ configuration = NotLoaded
    /\ boundary = NoBoundary

NextForm == CreateBooking

SpecForm == InitForm /\ [][NextForm]_vars
\* ------------------------------------------- a site without a display name
\* The upsert pass as it is entered under a configuration in which a feed
\* site ("Meadow") has no entry in SITE_DISPLAY_NAMES, so that
\* get_site_display_name gives the site name itself as title prefix: the one
\* fetched reservation is of the first site, of the second (no Checkfront
\* item) or of that site; the calendar has its entry or not, and the booking
\* system has a record for it or not.
SiteTitles == {"HT1", "HT2", "Meadow"}

InitSite ==
    /\ pc = "upsert_pass"
    /\ run = 1
    /\ now \in {4, 5}
    /\ faults = 0
    /\ next_event_id = 1
    /\ next_booking_id = 101
    /\ hipcamp_feeds = [site \in Range(HIPCAMP_ICAL_URLS) |-> <<>>]
    /\ checkfront_feed = <<>>
    /\ checkfront_events = <<>>
    /\ \E title \in SiteTitles :
          /\ calendar \in
                {<<>>,
                 <<ScriptEntry("g7", "hipcamp", "7",
                               <<title, "-", "Kim", "Hipcamp">>, 1, 3)>>}
          /\ hipcamp_events =
                <<CalendarEvent(Date(1), Date(3), <<title, "-", "Kim">>,
                                HipcampVEvent("Kim", "7", 1, 3).description,
                                "hipcamp", "7", None)>>
    /\ bookings \in {<<>>, <<[id |-> "100", hipcamp_id |-> "7",
                                customer_name |-> <<"Kim", "(HipCamp)">>,
                                start_date |-> 1, end_date |-> 3]>>}
    /\ google_events =
          get_google_calendar_events(
              calendar, now - SYNC_RANGE_DAYS * TicksPerDay, FALSE)
    /\ hipcamp_to_checkfront = get_hipcamp_event_mapping(bookings)
    /\ existing_events_map = build_existing_events_map(google_events)
    /\ google_event_ids = build_google_event_ids(google_events)
    /\ new_events = build_new_events(hipcamp_events, <<>>, now)
    /\ todo = DictKeys(new_events)
    /\ session_id = "unset"
    /\ ops = <<Op("list", NoKey, None, TRUE, NoBody),
               Op("event", NoKey, None, TRUE, NoBody)>>
    /\ fetch_failed = {}
    /\ attempts = <<>>
    /\ prev_clean = FALSE
    /\ prev_stop = "none"
    /\ other = OtherIdle
    /\ configuration = [loaded |-> TRUE, failure |-> "none"]
    /\ boundary = NoBoundary

NextSite == UpsertStep

SpecSite == InitSite /\ [][NextSite]_vars
\* --------------------------- camp_calendar_sync.core.sync_events_to_calendar
\* The packaged variant of the sync: no booking system, no normalization of
\* dates and no look at the end of an entry before it is deleted.

\* "event.end_time > now" of the packaged dict comprehensions (lines 745-755):
\* a datetime.date compared with the aware datetime `now` raises TypeError.
packaged_compare_raises(events) ==
    \E i \in 1..Len(events) :
        Truthy(events[i].source_id) /\ events[i].end_time.kind = "date"

RECURSIVE packaged_new_source_events(_, _, _)
packaged_new_source_events(source, events, t) ==
    IF events = <<>> THEN <<>>
    ELSE LET rest == packaged_new_source_events(
                        source, SubSeq(events, 1, Len(events) - 1), t)
             event == events[Len(events)]
         IN IF Truthy(event.source_id) /\ event.end_time.v > t
            THEN DictSet(rest, <<source, event.source_id>>, event)
            ELSE rest

\* TRUE when the packaged deletion loop deletes the entry of key (lines
\* 761-769): the key is not in new_events and the read-back has its id.
packaged_deletes_key(key, ids, new) ==
    /\ ~DictHas(new, key)
    /\ Truthy(DictGet(ids, key))

\* The arguments of a call: existing_events as read back from the calendar,
\* HipCamp events with timestamps, with dates or none, Checkfront events as
\* fetched.
PackagedHipcampEvents ==
    {<<>>,
     <<CalendarEvent(DateTime(2), DateTime(6), <<"HT1", "-", "Jane">>,
                     HipcampVEvent("Jane", "1", 1, 3).description,
                     "hipcamp", "1", None)>>,
     <<CalendarEvent(Date(1), Date(3), <<"HT1", "-", "Jane">>,
                     HipcampVEvent("Jane", "1", 1, 3).description,
                     "hipcamp", "1", None)>>}

InitPackaged ==
    /\ pc = "packaged_sync"
    /\ run = 1
    /\ now \in {4, 5}
    /\ faults = 0
    /\ \E h1 \in Hip1Entries, h2 \in Hip2Entries, c1 \in Cf1Entries,
          m \in ManualEntries :
          /\ calendar = h1 \o h2 \o c1 \o m
          /\ google_events =
                get_google_calendar_events(
                    h1 \o h2 \o c1 \o m,
                    now - SYNC_RANGE_DAYS * TicksPerDay, FALSE)
    /\ next_event_id = 1
    /\ bookings = <<>>
    /\ next_booking_id = 101
    /\ hipcamp_feeds = [site \in Range(HIPCAMP_ICAL_URLS) |-> <<>>]
    /\ checkfront_feed \in CheckfrontFeeds
    /\ hipcamp_events \in PackagedHipcampEvents
    /\ checkfront_events = fetch_checkfront_events(checkfront_feed, FALSE)
    /\ hipcamp_to_checkfront = <<>>
    /\ existing_events_map = <<>>
    /\ google_event_ids = <<>>
    /\ new_events = <<>>
    /\ todo = <<>>
    /\ session_id = "unset"
    /\ ops = <<>>
    /\ fetch_failed = {}
    /\ attempts = <<>>
    /\ prev_clean = FALSE
    /\ prev_stop = "none"
    /\ other = OtherIdle
    /\ configuration = [loaded |-> TRUE, failure |-> "none"]
    /\ boundary = NoBoundary

PackagedAfterDeletion(rest, new) ==
    IF rest # <<>> THEN [pc |-> "packaged_delete_pass", todo |-> rest]
    ELSE IF new # <<>>
    THEN [pc |-> "packaged_upsert_pass", todo |-> DictKeys(new)]
    ELSE [pc |-> "done", todo |-> <<>>]

\* Lines 726-758: the maps of the read-back and of the sources.
PackagedSyncStart ==
    /\ pc = "packaged_sync"
    /\ IF packaged_compare_raises(hipcamp_events \o checkfront_events)
       THEN /\ pc' = "raised"
            /\ existing_events_map' = build_existing_events_map(google_events)
            /\ google_event_ids' = build_google_event_ids(google_events)
            /\ UNCHANGED <<new_events, todo>>
       ELSE LET new == DictUpdate(
                          packaged_new_source_events("hipcamp",
                                                     hipcamp_events, now),
                          packaged_new_source_events("checkfront",
                                                     checkfront_events, now))
                existing == build_existing_events_map(google_events)
                next == PackagedAfterDeletion(DictKeys(existing), new)
            IN /\ existing_events_map' = existing
               /\ google_event_ids' = build_google_event_ids(google_events)
               /\ new_events' = new
               /\ pc' = next.pc
               /\ todo' = next.todo
    /\ UNCHANGED <<run, now, faults, calendar, next_event_id, bookings,
                   next_booking_id, hipcamp_feeds, checkfront_feed,
                   google_events, hipcamp_events, checkfront_events,
                   hipcamp_to_checkfront, session_id, ops, fetch_failed,
                   attempts, prev_clean, prev_stop, other, configuration,
                   boundary>>

\* One iteration of the packaged deletion loop (lines 760-782).
PackagedDeleteStep ==
    /\ pc = "packaged_delete_pass"
    /\ todo # <<>>
    /\ \E answer \in WriteAnswers :
          LET key == Head(todo)
              google_event_id == DictGet(google_event_ids, key)
              deletes == packaged_deletes_key(key, google_event_ids,
                                              new_events)
              accepted == answer = "ok" /\ HasEntry(calendar, google_event_id)
              next == PackagedAfterDeletion(Tail(todo), new_events)
          IN /\ answer # "ok" => (CanFail /\ deletes)
             /\ faults' = IF answer = "ok" THEN faults ELSE faults + 1
             /\ calendar' = IF deletes /\ accepted
                            THEN events_delete(calendar, google_event_id)
                            ELSE calendar
             /\ ops' = IF deletes
                       THEN Append(ops, Op("delete", key, google_event_id,
                                           accepted, NoBody))
                       ELSE ops
             /\ pc' = next.pc
             /\ todo' = next.todo
    /\ UNCHANGED <<run, now, next_event_id, bookings, next_booking_id,
                   hipcamp_feeds, checkfront_feed, google_events,
                   hipcamp_events, checkfront_events, hipcamp_to_checkfront,
                   existing_events_map, google_event_ids, new_events,
                   session_id, fetch_failed, attempts, prev_clean, prev_stop,
                   other, configuration, boundary>>

\* One iteration of the packaged create-or-update loop (lines 785-859).
PackagedUpsertStep ==
    /\ pc = "packaged_upsert_pass"
    /\ todo # <<>>
    /\ \E answer \in WriteAnswers :
          LET key == Head(todo)
              event == DictGet(new_events, key)
              body == google_event_body(key, event)
              is_update == DictHas(existing_events_map, key)
              google_event_id == IF is_update
                                 THEN DictGet(google_event_ids, key)
                                 ELSE ToString(next_event_id)
              sends == /\ event.end_time.v > now
                       /\ (~is_update \/ Truthy(google_event_id))
              written == /\ sends
                         /\ answer = "ok"
                         /\ (is_update => HasEntry(calendar, google_event_id))
              next == AfterUpsert(Tail(todo))
          IN /\ answer # "ok" => (CanFail /\ sends)
             /\ faults' = IF answer = "ok" THEN faults ELSE faults + 1
             /\ calendar' =
                   IF ~written THEN calendar
                   ELSE IF is_update
                   THEN events_update(calendar, google_event_id, body)
                   ELSE events_insert(calendar, google_event_id, body)
             /\ ops' = IF sends
                       THEN Append(ops,
                                   Op(IF is_update THEN "update" ELSE "insert",
                                      key,
                                      IF is_update THEN google_event_id
                                      ELSE None,
                                      written, body))
                       ELSE ops
             /\ google_event_ids' =
                   IF ~is_update /\ written
                   THEN DictSet(google_event_ids, key, google_event_id)
                   ELSE google_event_ids
             /\ next_event_id' = IF ~is_update /\ written
                                 THEN next_event_id + 1 ELSE next_event_id
             /\ pc' = IF next.pc = "upsert_pass" THEN "packaged_upsert_pass"
                      ELSE next.pc
             /\ todo' = next.todo
    /\ UNCHANGED <<run, now, bookings, next_booking_id, hipcamp_feeds,
                   checkfront_feed, google_events, hipcamp_events,
                   checkfront_events, hipcamp_to_checkfront,
                   existing_events_map, new_events, session_id, fetch_failed,
                   attempts, prev_clean, prev_stop, other, configuration,
                   boundary>>

NextPackaged ==
    \/ PackagedSyncStart
    \/ PackagedDeleteStep
    \/ PackagedUpsertStep

SpecPackaged == InitPackaged /\ [][NextPackaged]_vars
\* ------------------------------------------- runs on a calendar new to them
\* Runs that start from a calendar without any entry of the script (entries
\* made by hand may be there) and in which every calendar request is
\* accepted: the read, the inserts, the updates and the deletes.  Feed
\* requests and the booking system may still fail.
InitFresh ==
    /\ Init
    /\ \A i \in 1..Len(calendar) : calendar[i].private = NoProps

\* No calendar request of the run so far was answered with an HttpError.
CallsAccepted ==
    \A j \in 1..Len(ops) :
       ops[j].op \in {"list", "insert", "update", "delete"} => ops[j].ok

NextFresh ==
    \/ StartRun /\ CallsAccepted'
    \/ ListCalendar /\ CallsAccepted'
    \/ FetchHipcamp /\ CallsAccepted'
    \/ FetchCheckfront /\ CallsAccepted'
    \/ SyncStart /\ CallsAccepted'
    \/ DeleteStep /\ CallsAccepted'
    \/ UpsertStep /\ CallsAccepted'

SpecFresh == InitFresh /\ [][NextFresh]_vars
\* ------------------------------------- a feed that lists what was propagated
\* The Checkfront feed is a listing of the account's bookings, so it serves,
\* next to the bookings made in Checkfront itself, a VEVENT for every booking
\* that create_hipcamp_booking made: the booking id in its url, the
\* customer_name of the form as its summary, the item's site as its location
\* and the dates of the booking.
booking_vevents(bks) ==
    LET made == SelectSeq(bks, LAMBDA b : b.hipcamp_id # None)
    IN [i \in 1..Len(made) |->
          CheckfrontVEvent(made[i].id, made[i].customer_name,
                           DictGet(SITE_DISPLAY_NAMES,
                                   HIPCAMP_TO_CHECKFRONT[1][1]),
                           made[i].start_date * TicksPerDay,
                           made[i].end_date * TicksPerDay)]

\* checkfront_events = fetch_checkfront_events() from such a feed.
FetchCheckfrontListed ==
    /\ pc = "fetch_checkfront"
    /\ \E failed \in BOOLEAN :
          /\ failed => CanFail
          /\ faults' = IF failed THEN faults + 1 ELSE faults
          /\ checkfront_events' =
                fetch_checkfront_events(
                    checkfront_feed \o booking_vevents(bookings), failed)
          /\ fetch_failed' =
                IF failed THEN fetch_failed \cup {"checkfront"} ELSE fetch_failed
    /\ pc' = "sync"
    /\ UNCHANGED <<run, now, calendar, next_event_id, bookings,
                   next_booking_id, hipcamp_feeds, checkfront_feed,
                   google_events, hipcamp_events, hipcamp_to_checkfront,
                   existing_events_map, google_event_ids, new_events, todo,
                   session_id, ops, attempts, prev_clean, prev_stop, other,
                   configuration, boundary>>

NextLoop ==
    \/ StartRun
    \/ ListCalendar
    \/ FetchHipcamp
    \/ FetchCheckfrontListed
    \/ SyncStart
    \/ DeleteStep
    \/ UpsertStep

SpecLoop == InitFresh /\ [][NextLoop]_vars
\* ------------------------------------------- feeds that list a key twice
\* Runs over feeds in which a reservation can be listed twice, within one
\* HipCamp feed, by both HipCamp feeds or within the Checkfront feed, and
\* over a calendar that can hold the entry of a Checkfront booking that is
\* still running.
InitFeeds ==
    /\ pc = "idle"
    /\ run = 0
    /\ now = 4
    /\ faults = 0
    /\ \E h1 \in {<<>>, <<ScriptEntry("g1", "hipcamp", "1",
                                      <<"HT1", "-", "Jane", "Hipcamp">>,
                                      1, 3)>>},
          c1 \in {<<>>, <<ScriptEntry("g3", "checkfront", "1",
                                      <<"HT1", "-", "Ann", "Checkfront">>,
                                      2, 4)>>} :
          calendar = h1 \o c1
    /\ next_event_id = 1
    /\ bookings \in InitialBookings
    /\ next_booking_id = 101
    /\ \E f1 \in {<<>>,
                  <<HipcampVEvent("Jane", "1", 1, 3)>>,
                  <<HipcampVEvent("Jane", "1", 1, 3),
                    HipcampVEvent("Jane", "1", 1, 4)>>},
          f2 \in {<<>>, <<HipcampVEvent("Jane", "1", 2, 4)>>} :
          hipcamp_feeds = [site \in Range(HIPCAMP_ICAL_URLS) |->
                              IF site = HIPCAMP_ICAL_URLS[1] THEN f1 ELSE f2]
    /\ checkfront_feed \in
          {<<>>,
           <<CheckfrontVEvent("1", <<"Ann">>, "HT1", 3, 7)>>,
           <<CheckfrontVEvent("1", <<"Ann">>, "HT1", 3, 7),
             CheckfrontVEvent("1", <<"Ann">>, "HT1", 4, 8)>>}
    /\ google_events = <<>>
    /\ hipcamp_events = <<>>
    /\ checkfront_events = <<>>
    /\ hipcamp_to_checkfront = <<>>
    /\ existing_events_map = <<>>
    /\ google_event_ids = <<>>
    /\ new_events = <<>>
    /\ todo = <<>>
    /\ session_id = "unset"
    /\ ops = <<>>
    /\ fetch_failed = {}
    /\ attempts = <<>>
    /\ prev_clean = FALSE
    /\ prev_stop = "none"
    /\ other = OtherIdle
    /\ configuration = NotLoaded
    /\ boundary = NoBoundary

SpecFeeds == InitFeeds /\ [][Next]_vars
\* ------------------------------------------------------------- properties
\* Index sets over the requests of the current run.
OpIdx == 1..Len(ops)
CalendarWrites == {"insert", "update"}
PropagationCalls ==
    {"booking/session", "item", "booking/session/slip", "booking/form",
     "booking/create"}

WriteIdx(key) == {j \in OpIdx : ops[j].op \in CalendarWrites /\ ops[j].key = key}
UpdateIdx(key) == {j \in OpIdx : ops[j].op = "update" /\ ops[j].key = key}

\* The passes have the three maps of this run.
InSync == pc \in {"delete_pass", "upsert_pass", "done"}

SourceEvents == hipcamp_events \o checkfront_events
KeyOf(e) == <<e.source, e.source_id>>
SourceKeys == {KeyOf(SourceEvents[i]) : i \in 1..Len(SourceEvents)}
LiveSourceKeys ==
    {KeyOf(SourceEvents[i]) : i \in
        {k \in 1..Len(SourceEvents) :
            /\ Truthy(SourceEvents[k].source_id)
            /\ normalize_datetime(SourceEvents[k].end_time) > now}}

ListOk == ops # <<>> /\ ops[1].op = "list" /\ ops[1].ok

Untracked(private) ==
    /\ "hipcamp_booking_id" \notin DOMAIN private
    /\ "checkfront_booking_id" \notin DOMAIN private

EntryOf(event_id) ==
    CHOOSE i \in 1..Len(calendar) : calendar[i].id = event_id

\* C1 -- No duplicate creation: a key that is both in the calendar read-back
\* and among the non-ended source events gets no insert; every update for it
\* is addressed to the entry read back for that key, and the finished run has
\* sent one.  Title and dates of the two events play no part.
C1_NoDuplicateCreation ==
    InSync =>
    \A i \in 1..Len(existing_events_map) :
        LET key == existing_events_map[i][1]
            read == existing_events_map[i][2]
        IN key \in LiveSourceKeys =>
             /\ \A j \in OpIdx : ops[j].op = "insert" => ops[j].key # key
             /\ \A j \in UpdateIdx(key) :
                   ops[j].event_id = read.google_event_id
             /\ pc = "done" => UpdateIdx(key) # {}

\* Reached: a finished run updated an entry whose title and end differ from
\* those of the source event of the same key.
C1_Witness ==
    /\ pc = "done"
    /\ \E i \in 1..Len(existing_events_map) :
          LET key == existing_events_map[i][1]
              read == existing_events_map[i][2]
          IN /\ key \in LiveSourceKeys
             /\ \E j \in UpdateIdx(key) :
                   /\ ops[j].ok
                   /\ ops[j].body.summary # read.summary
                   /\ ops[j].body.end.v * TicksPerDay
                         # normalize_datetime(read.end_time)

\* The second of two runs over the same feeds, the first having completed
\* with every request accepted, the second having read calendar and feeds.
SecondRunDone ==
    /\ run >= 2
    /\ prev_clean
    /\ pc = "done"
    /\ ListOk
    /\ fetch_failed = {}

InsertsOrDeletes == {j \in OpIdx : ops[j].op \in {"insert", "delete"}}

\* A body that carries a propagated booking id next to the HipCamp id.
Linked(private) ==
    {"hipcamp_booking_id", "checkfront_booking_id"} \subseteq DOMAIN private

RefreshIdx(key) == {j \in UpdateIdx(key) : ~Linked(ops[j].body.private)}
EnrichIdx(key) == {j \in UpdateIdx(key) : Linked(ops[j].body.private)}

\* C2 (as stated) -- Identity stability: the second run sends no insert, no
\* delete and exactly one update for each non-ended source key.
C2_ExactlyOneUpdate ==
    SecondRunDone =>
        /\ InsertsOrDeletes = {}
        /\ \A key \in LiveSourceKeys : Cardinality(UpdateIdx(key)) = 1

\* C2 (amended) -- the second run sends no insert, no delete, exactly one
\* refresh update for each non-ended source key, and one more update of the
\* same entry (the enrichment write) exactly for the keys whose propagation
\* returned a booking id in that run.
C2_OneRefreshPerKey ==
    SecondRunDone =>
        /\ InsertsOrDeletes = {}
        /\ \A key \in LiveSourceKeys :
              /\ Cardinality(RefreshIdx(key)) = 1
              /\ Cardinality(EnrichIdx(key))
                    = Cardinality({a \in 1..Len(attempts) :
                                      /\ attempts[a].key = key
                                      /\ Truthy(attempts[a].booking_id)})
              /\ Cardinality(EnrichIdx(key)) <= 1
              /\ \A j \in UpdateIdx(key) :
                    \A k \in UpdateIdx(key) :
                        ops[j].event_id = ops[k].event_id

\* Reached: a second run that refreshed a key and then enriched it.
C2_Witness ==
    /\ SecondRunDone
    /\ \E key \in LiveSourceKeys :
          Cardinality(RefreshIdx(key)) = 1 /\ Cardinality(EnrichIdx(key)) = 1

\* C3 -- Past-event immutability: a tracked entry read back with an end at or
\* before now, whose key no source event carries, gets no delete; and when it
\* is the entry the map holds for its key, no booking-system lookup or delete
\* is sent for that key.
C3_PastEventImmutability ==
    \A i \in 1..Len(google_events) :
        LET e == google_events[i]
        IN (/\ InSync
            /\ Truthy(e.source_id)
            /\ normalize_datetime(e.end_time) <= now
            /\ KeyOf(e) \notin SourceKeys) =>
              /\ \A j \in OpIdx :
                    ops[j].op = "delete" => ops[j].event_id # e.google_event_id
              /\ (\E m \in 1..Len(existing_events_map) :
                     existing_events_map[m] = <<KeyOf(e), e>>) =>
                    \A j \in OpIdx :
                        ops[j].op \in {"event", "booking/delete"}
                           => ops[j].key # KeyOf(e)

\* Reached: a finished run left in place an ended hipcamp entry that is gone
\* from the sources, its booking still in the booking system.
C3_Witness ==
    /\ pc = "done"
    /\ \E i \in 1..Len(google_events) :
          LET e == google_events[i]
          IN /\ e.source = "hipcamp"
             /\ Truthy(e.source_id)
             /\ normalize_datetime(e.end_time) <= now
             /\ KeyOf(e) \notin SourceKeys
             /\ HasEntry(calendar, e.google_event_id)
             /\ \E b \in 1..Len(bookings) : bookings[b].hipcamp_id = e.source_id

\* C4 -- Ended-event exclusion: a key whose source events all end at or before
\* now gets no insert, no update and no propagation attempt, whether or not
\* the calendar holds the key.
C4_EndedEventExclusion ==
    \A i \in 1..Len(SourceEvents) :
        LET key == KeyOf(SourceEvents[i])
        IN (InSync /\ key \notin LiveSourceKeys) =>
              /\ WriteIdx(key) = {}
              /\ \A j \in OpIdx :
                    ops[j].op \in PropagationCalls => ops[j].key # key
              /\ \A a \in 1..Len(attempts) : attempts[a].key # key

\* Reached: a finished run that wrote other keys and had a source event that
\* ends exactly now and has no entry in the calendar.
C4_Witness ==
    /\ pc = "done"
    /\ \E j \in OpIdx : ops[j].op \in CalendarWrites
    /\ \E i \in 1..Len(SourceEvents) :
          /\ Truthy(SourceEvents[i].source_id)
          /\ KeyOf(SourceEvents[i]) \notin LiveSourceKeys
          /\ normalize_datetime(SourceEvents[i].end_time) = now
          /\ ~DictHas(existing_events_map, KeyOf(SourceEvents[i]))

\* C5 -- Untracked passthrough: an entry whose private bag has neither id is
\* read back with no source_id, is not in existing_events_map and is the
\* target of no update and no delete.
C5_UntrackedPassthrough ==
    /\ \A i \in 1..Len(google_events) :
          LET e == google_events[i]
          IN (HasEntry(calendar, e.google_event_id)
              /\ Untracked(calendar[EntryOf(e.google_event_id)].private)) =>
                /\ e.source_id = None
                /\ e.source = "google_calendar"
    /\ \A i \in 1..Len(calendar) :
          Untracked(calendar[i].private) =>
             /\ \A m \in 1..Len(existing_events_map) :
                   existing_events_map[m][2].google_event_id # calendar[i].id
             /\ \A m \in 1..Len(google_event_ids) :
                   google_event_ids[m][2] # calendar[i].id
             /\ \A j \in OpIdx :
                   ops[j].op \in {"update", "delete"}
                      => ops[j].event_id # calendar[i].id
    /\ \A i \in 1..Len(google_events) :
          ~Truthy(google_events[i].source_id) =>
             HasEntry(calendar, google_events[i].google_event_id)

\* Reached: a finished run that deleted and updated tracked entries while an
\* untracked, not yet ended entry was in its read-back.
C5_Witness ==
    /\ pc = "done"
    /\ \E j \in OpIdx : ops[j].op = "delete" /\ ops[j].ok
    /\ \E j \in OpIdx : ops[j].op = "update" /\ ops[j].ok
    /\ \E i \in 1..Len(google_events) :
          /\ google_events[i].source_id = None
          /\ normalize_datetime(google_events[i].end_time) > now
          /\ HasEntry(calendar, google_events[i].google_event_id)

DeleteIdx == {j \in OpIdx : ops[j].op \in {"delete", "booking/delete"}}

\* C6 -- a calendar delete, and the booking delete that follows it, is sent
\* only for a key that no current source event carries: a reservation the
\* sources still list is never deleted.  The code looks the key up in
\* new_events, which leaves out the listed events that have ended, so this
\* does not hold.
C6_DeleteOnlyIfUnlisted ==
    \A j \in DeleteIdx : ops[j].key \notin SourceKeys

\* Reached: a finished run that deleted the entry, and the booking, of a key
\* that the sources list only with an end at or before now, and that kept
\* the entry of a key the sources list as not ended.
C6_Witness ==
    /\ pc = "done"
    /\ \E j \in OpIdx :
          /\ ops[j].op = "delete" /\ ops[j].ok
          /\ ops[j].key \in SourceKeys \ LiveSourceKeys
    /\ \E j \in OpIdx :
          ops[j].op = "booking/delete" /\ ops[j].key \in SourceKeys
    /\ \E m \in 1..Len(existing_events_map) :
          /\ existing_events_map[m][1] \in LiveSourceKeys
          /\ HasEntry(calendar, existing_events_map[m][2].google_event_id)

\* The availability check answered sold out / overbooked / unavailable.
ReportsUnavailable(reply) ==
    /\ reply.session = "ok"
    /\ \/ reply.status = "ERROR" /\ reply.error_id \in {"SOLDOUT", "OVERBOOK"}
       \/ reply.status \in {"SOLDOUT", "OVERBOOK", "UNAVAILABLE"}

\* The entry that the calendar write of an attempt made is still as written.
WriteKept(a) ==
    /\ HasEntry(calendar, a.event_id)
    /\ calendar[EntryOf(a.event_id)].summary = a.body.summary
    /\ calendar[EntryOf(a.event_id)].end = a.body.end
    /\ calendar[EntryOf(a.event_id)].private = a.body.private
    /\ EnrichIdx(a.key) = {}

\* C7 -- Propagation skip on unavailability: an attempt whose availability
\* check reports sold out / overbooked / unavailable returns None, raises
\* nothing, sends no booking/create request, and the entry written for the
\* key stays as written, without enrichment write.
C7_SkipOnUnavailable ==
    \A i \in 1..Len(attempts) :
        ReportsUnavailable(attempts[i].reply) =>
           /\ attempts[i].booking_id = None
           /\ attempts[i].raised = None
           /\ "booking/create" \notin Range(attempts[i].calls)
           /\ \A j \in OpIdx :
                 ops[j].op = "booking/create" => ops[j].key # attempts[i].key
           /\ WriteKept(attempts[i])

\* Reached: a finished run in which the attempt that followed an insert was
\* answered sold out and skipped.
C7_Witness ==
    /\ pc = "done"
    /\ \E i \in 1..Len(attempts) :
          /\ ReportsUnavailable(attempts[i].reply)
          /\ attempts[i].reply.error_id = "SOLDOUT"
          /\ attempts[i].outcome = "unavailable_skip"
          /\ \E j \in OpIdx : ops[j].op = "insert" /\ ops[j].ok
                              /\ ops[j].key = attempts[i].key

\* The attempt met an exception (every deviation from OkReply but a booking
\* response without id is one).
MeetsException(reply) == reply # OkReply /\ reply.create # "noid"

DueForDelete ==
    {existing_events_map[m][1] : m \in
        {k \in 1..Len(existing_events_map) :
            /\ existing_events_map[k][1] \notin LiveSourceKeys
            /\ normalize_datetime(existing_events_map[k][2].end_time) > now}}

CalendarOps == {"delete", "insert", "update"}

SiteIds(site) ==
    {hipcamp_feeds[site][i].description.marker : i \in
        {k \in 1..Len(hipcamp_feeds[site]) :
            Truthy(hipcamp_feeds[site][k].description.marker)}}

CheckfrontIds ==
    {checkfront_feed[i].url : i \in
        {k \in 1..Len(checkfront_feed) :
            /\ Truthy(checkfront_feed[k].url)
            /\ "(HipCamp)" \notin Range(checkfront_feed[k].summary)}}

\* Both fetches of a run with a site configuration are over.
Fetched ==
    /\ pc \in {"sync", "delete_pass", "upsert_pass", "done", "raised"}
    /\ configuration.loaded
    /\ configuration.failure # "credentials"

\* C10 -- a feed whose request failed contributes no event; every other site
\* feed and the other source contribute all their identified events, and the
\* finished run has written every non-ended key they carry.
C10_FetchFailureIsolated ==
    Fetched =>
    /\ \A s \in 1..Len(HIPCAMP_ICAL_URLS) :
          LET site == HIPCAMP_ICAL_URLS[s]
              from_site == {i \in 1..Len(hipcamp_events) :
                              hipcamp_events[i].summary[1]
                                 = SITE_DISPLAY_NAMES[s][2]}
          IN IF site \in fetch_failed THEN from_site = {}
             ELSE {hipcamp_events[i].source_id : i \in from_site}
                     = SiteIds(site)
    /\ {checkfront_events[i].source_id : i \in 1..Len(checkfront_events)}
          = IF "checkfront" \in fetch_failed THEN {} ELSE CheckfrontIds
    /\ pc = "done" =>
          \A key \in LiveSourceKeys : WriteIdx(key) # {}

\* Reached: a finished run in which the first site feed failed and a key of
\* the second site feed and a key of the Checkfront feed were written.
C10_Witness ==
    /\ pc = "done"
    /\ HIPCAMP_ICAL_URLS[1] \in fetch_failed
    /\ SiteIds(HIPCAMP_ICAL_URLS[1]) # {}
    /\ \E j \in OpIdx : /\ ops[j].op \in CalendarWrites /\ ops[j].ok
                        /\ ops[j].key[1] = "hipcamp"
    /\ \E j \in OpIdx : /\ ops[j].op \in CalendarWrites /\ ops[j].ok
                        /\ ops[j].key[1] = "checkfront"


\* The entry that the read-back holds for key carries the key's HipCamp id
\* and a checkfront_booking_id written by an earlier enrichment.
LinkedEntry(key) ==
    /\ DictHas(google_event_ids, key)
    /\ HasEntry(calendar, DictGet(google_event_ids, key))
    /\ LET private == calendar[EntryOf(DictGet(google_event_ids, key))].private
       IN /\ Linked(private)
          /\ private["hipcamp_booking_id"] = key[2]

EntriesOf(key) ==
    {i \in 1..Len(calendar) :
        IF key[1] = "hipcamp"
        THEN /\ "hipcamp_booking_id" \in DOMAIN calendar[i].private
             /\ calendar[i].private["hipcamp_booking_id"] = key[2]
        ELSE /\ "hipcamp_booking_id" \notin DOMAIN calendar[i].private
             /\ "checkfront_booking_id" \in DOMAIN calendar[i].private
             /\ calendar[i].private["checkfront_booking_id"] = key[2]}

\* The first non-ended source event that carries key.
LiveEventOf(key) ==
    SourceEvents[CHOOSE k \in 1..Len(SourceEvents) :
                    /\ KeyOf(SourceEvents[k]) = key
                    /\ normalize_datetime(SourceEvents[k].end_time) > now
                    /\ \A m \in 1..Len(SourceEvents) :
                          (/\ KeyOf(SourceEvents[m]) = key
                           /\ normalize_datetime(SourceEvents[m].end_time) > now)
                             => SourceEvents[k] = SourceEvents[m]]

\* A complete run without failure has followed a run that was stopped, the
\* stop being the only failure so far.
RerunDone ==
    /\ pc = "done"
    /\ prev_stop = "crashed"
    /\ faults = 1
    /\ RunClean
    /\ fetch_failed = {}

\* The entry i shows what the body written for key shows: title, description,
\* dates, the identity metadata and the marker.
ShowsSource(i, key) ==
    LET e == LiveEventOf(key)
        private == [k \in {booking_id_prop(key[1]), "synced_by_script"} |->
                       IF k = "synced_by_script" THEN "true" ELSE key[2]]
    IN /\ calendar[i].summary = summary_with_source(e.summary, key[1])
       /\ calendar[i].description = e.description
       /\ calendar[i].start = [kind |-> "date", v |-> strftime(e.start_time)]
       /\ calendar[i].end = [kind |-> "date", v |-> strftime(e.end_time)]
       /\ \A k \in DOMAIN private :
             k \in DOMAIN calendar[i].private
             /\ calendar[i].private[k] = private[k]

\* Bookings that a run of the script has created for the HipCamp id.
ScriptBookings(hipcamp_id) ==
    {b \in 1..Len(bookings) :
        /\ bookings[b].hipcamp_id = hipcamp_id
        /\ \A init \in InitialBookings :
              \A k \in 1..Len(init) : init[k].id # bookings[b].id}

\* An uninterrupted run leaves the entry of every reservation it has booked
\* with the booking id in its metadata, and no other entry with one.
AsUninterrupted(i, key) ==
    /\ ShowsSource(i, key)
    /\ key[1] = "hipcamp" =>
          (Linked(calendar[i].private) <=> ScriptBookings(key[2]) # {})

BothDone == pc = "done" /\ other.pc = "done"

\* Accepted inserts of key by the first and by the second process.
InsertsOf(requests, key) ==
    {j \in 1..Len(requests) :
        /\ requests[j].op = "insert" /\ requests[j].ok
        /\ requests[j].key = key}

\* Both processes read the calendar before either had inserted key, and both
\* hold key as a non-ended source event.
NewToBoth(key) ==
    /\ DictHas(new_events, key)
    /\ DictHas(other.new_events, key)
    /\ ~DictHas(existing_events_map, key)
    /\ ~DictHas(other.existing_events_map, key)

\* C13 -- Overlapping runs are unsafe: when both runs read the calendar
\* before either inserted a source key that is new to the calendar, each of
\* them sends an insert for the key and the calendar ends with two entries
\* that carry the same (source, source_id).
C13_OverlapDuplicates ==
    BothDone =>
       \A key \in LiveSourceKeys :
          NewToBoth(key) =>
             /\ Cardinality(InsertsOf(ops, key)) = 1
             /\ Cardinality(InsertsOf(other.ops, key)) = 1
             /\ Cardinality(EntriesOf(key)) = 2

\* Reached: both runs have finished and the calendar holds two entries for
\* one hipcamp key, each inserted by one of the runs.
C13_Witness ==
    /\ BothDone
    /\ \E key \in LiveSourceKeys :
          /\ key[1] = "hipcamp"
          /\ NewToBoth(key)
          /\ InsertsOf(ops, key) # {}
          /\ InsertsOf(other.ops, key) # {}
          /\ Cardinality(EntriesOf(key)) = 2


\* C14 -- after every call of create_hipcamp_booking, whatever its outcome,
\* _session_id is None; and an attempt that adds an item or submits a booking
\* has opened its own session first, so no session is used for two
\* reservations.
C14_SessionCleared ==
    /\ attempts # <<>> => session_id = None
    /\ session_id \in {"unset", None}
    /\ \A i \in 1..Len(attempts) :
          LET calls == attempts[i].calls
          IN /\ Cardinality({k \in 1..Len(calls) :
                                calls[k] = "booking/session"}) <= 1
             /\ \A k \in 1..Len(calls) :
                   calls[k] \in {"item", "booking/session/slip",
                                 "booking/form", "booking/create"}
                      => /\ calls[1] = "booking/session"
                         /\ attempts[i].reply.session = "ok"

\* Reached: one run has made a call that opened a session and was ended by
\* an exception or skipped as unavailable, and a call for a site without
\* mapping, and the session id is None.
C14_Witness ==
    /\ pc = "done"
    /\ session_id = None
    /\ \E i \in 1..Len(attempts) :
          /\ attempts[i].outcome \in {"unavailable_skip", "error"}
          /\ "item" \in Range(attempts[i].calls)
    /\ \E i \in 1..Len(attempts) : attempts[i].outcome = "no_mapping"


\* The availability check answered with status ERROR for a cause other than
\* sold out or overbooked.
OtherErrorStatus(reply) ==
    /\ reply.session = "ok"
    /\ reply.status = "ERROR"
    /\ reply.error_id \notin {"SOLDOUT", "OVERBOOK"}

\* C15 -- an attempt whose availability check returns an error status for a
\* cause other than sold out / overbooked / unavailable ends as a propagation
\* failure (re-raised to the boundary), not as the benign skip.  The message
\* add_item_to_session builds for every ERROR status contains "unavailable",
\* so this does not hold.
C15_OtherErrorsAreFailures ==
    \A i \in 1..Len(attempts) :
        OtherErrorStatus(attempts[i].reply) => attempts[i].outcome = "error"

\* Reached: an availability check answered ERROR with the id INVALID and the
\* attempt was skipped as "dates unavailable".
C15_Witness ==
    \E i \in 1..Len(attempts) :
        /\ OtherErrorStatus(attempts[i].reply)
        /\ attempts[i].reply.error_id = "INVALID"
        /\ attempts[i].outcome = "unavailable_skip"


\* The requests that the step has added to those of the run.
NewOps == SubSeq(ops', Len(ops) + 1, Len(ops'))

\* The step is an iteration of the deletion loop, not stopped and without
\* failure, in which the calendar accepted the delete of a hipcamp entry.
DeletesHipcampEntry ==
    /\ pc = "delete_pass"
    /\ pc' # "crashed"
    /\ faults' = faults
    /\ Len(ops') > Len(ops)
    /\ NewOps[1].op = "delete"
    /\ NewOps[1].ok
    /\ NewOps[1].key[1] = "hipcamp"

\* C16 -- after the calendar delete of a non-ended hipcamp entry the engine
\* lists the booking-system records and, when one embeds the HipCamp id,
\* sends a delete for that record; when none does, it sends no delete; in
\* both cases nothing is raised and the deletion pass goes on.
C16_BookingLookupOnDelete ==
    [][DeletesHipcampEntry =>
          LET key == NewOps[1].key
              mapped == {b \in 1..Len(bookings) :
                            bookings[b].hipcamp_id = key[2]}
          IN /\ Len(NewOps) >= 2
             /\ NewOps[2].op = "event"
             /\ pc' \in {"delete_pass", "upsert_pass", "done"}
             /\ todo' # todo \/ pc' # "delete_pass"
             /\ IF mapped = {}
                THEN /\ Len(NewOps) = 2
                     /\ bookings' = bookings
                ELSE /\ Len(NewOps) = 3
                     /\ NewOps[3].op = "booking/delete"
                     /\ \E b \in mapped :
                           bookings' = SelectSeq(bookings, LAMBDA r :
                                                    r.id # bookings[b].id)]_vars

\* Reached: a run without failure deleted a hipcamp entry, listed the records
\* and, none embedding the id, sent no booking delete and went on with
\* another key.
C16_Witness ==
    /\ faults = 0
    /\ \E j \in OpIdx :
          /\ ops[j].op = "delete" /\ ops[j].ok
          /\ ops[j].key[1] = "hipcamp"
          /\ j + 2 <= Len(ops)
          /\ ops[j + 1].op = "event"
          /\ ops[j + 2].op # "booking/delete"
          /\ ops[j + 2].key # ops[j].key


\* HipCamp ids and end ticks that the entries of the initial calendars have.
HipcampEntryIds ==
    {e[1].private["hipcamp_booking_id"] : e \in (Hip1Entries \cup Hip2Entries) \ {<<>>}}

HipcampEntryEnds ==
    {RawTick(e[1].end) : e \in (Hip1Entries \cup Hip2Entries) \ {<<>>}}

\* Records of the booking system that embed the HipCamp id.
BookingsOf(hipcamp_id) ==
    {b \in 1..Len(bookings) : bookings[b].hipcamp_id = hipcamp_id}

\* The reservation was propagated (the calendar holds its entry, ending at
\* tick t after now, and the booking system its booking) and no feed lists it.
PropagatedAndGone(hipcamp_id, t) ==
    /\ t > now
    /\ \E i \in EntriesOf(<<"hipcamp", hipcamp_id>>) :
          RawTick(calendar[i].end) = t
    /\ BookingsOf(hipcamp_id) # {}
    /\ \A s \in 1..Len(HIPCAMP_ICAL_URLS) :
          hipcamp_id \notin SiteIds(HIPCAMP_ICAL_URLS[s])

\* The runs of a deployment whose calendar holds, at the start, only the
\* entry of a propagated reservation that no feed lists any more.  Runs
\* follow one another: some step is taken whenever one is possible.
InitLive ==
    /\ Init
    /\ Len(calendar) = 1
    /\ \E hipcamp_id \in HipcampEntryIds :
          \E t \in HipcampEntryEnds : PropagatedAndGone(hipcamp_id, t)

SpecLive == InitLive /\ [][Next]_vars /\ WF_vars(Next)

ReadBack(body) ==
    get_google_calendar_events(events_insert(<<>>, "written", body), 0, FALSE)

\* C18 -- every insert and update body carries, in its private properties,
\* "<source>_booking_id" equal to the key's source_id and the marker
\* synced_by_script = "true", and the entry read back has the (source,
\* source_id) of the key it was written for.
C18_IdentityRoundTrip ==
    \A j \in OpIdx :
       ops[j].op \in CalendarWrites =>
          LET key == ops[j].key
              private == ops[j].body.private
              back == ReadBack(ops[j].body)
          IN /\ key[1] \in {"hipcamp", "checkfront"}
             /\ key[1] = "hipcamp" =>
                   /\ "hipcamp_booking_id" \in DOMAIN private
                   /\ private["hipcamp_booking_id"] = key[2]
             /\ key[1] = "checkfront" =>
                   /\ "checkfront_booking_id" \in DOMAIN private
                   /\ private["checkfront_booking_id"] = key[2]
             /\ "synced_by_script" \in DOMAIN private
             /\ private["synced_by_script"] = "true"
             /\ Len(back) = 1
             /\ <<back[1].source, back[1].source_id>> = key

\* Reached: one run has inserted an entry for a checkfront key, updated the
\* entry of a hipcamp key and written a hipcamp body that also carries the
\* booking id of the booking system.
C18_Witness ==
    /\ pc = "done"
    /\ \E j \in OpIdx :
          /\ ops[j].op = "insert" /\ ops[j].ok /\ ops[j].key[1] = "checkfront"
    /\ \E j \in OpIdx :
          /\ ops[j].op = "update" /\ ops[j].ok /\ ops[j].key[1] = "hipcamp"
    /\ \E j \in OpIdx :
          /\ ops[j].op \in CalendarWrites /\ ops[j].ok
          /\ ops[j].key[1] = "hipcamp"
          /\ "checkfront_booking_id" \in DOMAIN ops[j].body.private


\* Requests that write to the calendar or to the booking system.
WriteRequests ==
    {"insert", "update", "delete", "booking/session", "booking/session/slip",
     "booking/create", "booking/delete"}

\* C19 -- a run that finds the site configuration or a credentials file
\* missing or undecodable ends with an error before it sends any write to the
\* calendar or to the booking system.  A run in a process that loaded the
\* site configuration before goes on with the old values, so this does not
\* hold.
C19_ConfigurationFailureIsFatal ==
    configuration.failure # "none" =>
       /\ pc \in {"list_calendar", "fetch_hipcamp", "fetch_checkfront",
                  "sync", "raised", "crashed"}
       /\ \A j \in OpIdx : ops[j].op \notin WriteRequests

\* Reached: a run whose site configuration file could not be read has
\* completed and has written to the calendar.
C19_Witness ==
    /\ pc = "done"
    /\ configuration.failure = "site_configuration"
    /\ \E j \in OpIdx : ops[j].op \in {"insert", "update", "delete"} /\ ops[j].ok


\* C20 -- an exception that reaches an entry point is re-raised or becomes a
\* failure status, and a line is logged for it, at every verbosity.  main of
\* cli.py logs three kinds of exception with warn, which the default level
\* does not print, and returns normally, so this does not hold.
C20_NeverSilentlySwallowed ==
    boundary.outcome # "running" =>
       /\ boundary.outcome \in {"raised", "status 400", "status 500"}
       /\ boundary.logged

\* Reached: main of cli.py has returned normally from a FileNotFoundError at
\* the default verbosity without printing anything.
C20_Witness ==
    /\ boundary.entry = "cli_main"
    /\ boundary.verbose = 0
    /\ boundary.exception = "FileNotFoundError"
    /\ boundary.outcome = "returned"
    /\ ~boundary.logged


\* datetime.datetime.combine(date, datetime.time(hour, 0)) on the tick grid:
\* the tick of the day in which the hour falls.
combine(date, hour) ==
    DateTime(date.v * TicksPerDay + (hour * TicksPerDay) \div 24)

\* C21 -- the event built from a date-only VEVENT starts on the start date at
\* 14:00 and ends on the end date at 12:00, it is left out as ended only when
\* that end instant is not after now, and a value that carries a timestamp is
\* used as it is.  The isinstance(.., vDate) test of fetch_hipcamp_events is
\* never true, so the date stays a date and ends at midnight: this does not
\* hold.
C21_DateHandling ==
    LET at_hour_if_date(dt, hour) ==
            IF dt.kind = "date" THEN combine(dt, hour) ELSE dt
    IN
    Fetched =>
    /\ \A s \in 1..Len(HIPCAMP_ICAL_URLS) :
          LET site == HIPCAMP_ICAL_URLS[s]
              feed == hipcamp_feeds[site]
          IN site \notin fetch_failed =>
             \A v \in 1..Len(feed) :
                Truthy(extract_booking_id(feed[v].description)) =>
                   \E i \in 1..Len(hipcamp_events) :
                      /\ hipcamp_events[i].source_id
                            = extract_booking_id(feed[v].description)
                      /\ hipcamp_events[i].start_time
                            = at_hour_if_date(feed[v].dtstart, 14)
                      /\ hipcamp_events[i].end_time
                            = at_hour_if_date(feed[v].dtend, 12)
                      /\ InSync =>
                            (DictHas(new_events, KeyOf(hipcamp_events[i]))
                               <=> at_hour_if_date(feed[v].dtend, 12).v > now)
    /\ "checkfront" \notin fetch_failed =>
          \A v \in 1..Len(checkfront_feed) :
             \E i \in 1..Len(checkfront_events) :
                /\ checkfront_events[i].start_time = checkfront_feed[v].dtstart
                /\ checkfront_events[i].end_time = checkfront_feed[v].dtend

\* Reached: a finished run on the morning of a date-only reservation's last
\* day (its specified end, that day at 12:00, is still ahead) has taken the
\* reservation as ended and written nothing for it, while a Checkfront event
\* was fetched with its timestamps as they are.
C21_Witness ==
    /\ pc = "done"
    /\ \E i \in 1..Len(hipcamp_events) :
          /\ hipcamp_events[i].end_time.kind = "date"
          /\ normalize_datetime(hipcamp_events[i].end_time) = now
          /\ combine(hipcamp_events[i].end_time, 12).v > now
          /\ ~DictHas(new_events, KeyOf(hipcamp_events[i]))
          /\ WriteIdx(KeyOf(hipcamp_events[i])) = {}
    /\ \E i \in 1..Len(checkfront_events) :
          checkfront_events[i].end_time.kind = "datetime"



\* The calendar holds not-ended entries for hipcamp keys "1" and "2" and the
\* sources returned exactly one identified event, hipcamp "1", not ended.
OnlyFirstKeyLeft ==
    /\ InSync
    /\ \A key \in {<<"hipcamp", "1">>, <<"hipcamp", "2">>} :
          /\ DictHas(existing_events_map, key)
          /\ not_ended(DictGet(existing_events_map, key), now)
    /\ SourceKeys = {<<"hipcamp", "1">>}
    /\ LiveSourceKeys = {<<"hipcamp", "1">>}

\* C22 -- with entries for hipcamp "1" and "2", both not ended, and sources
\* that return only "1" with a future end, the finished run has sent a delete
\* for the entry of "2" and an update for the entry of "1", no insert, and no
\* session, availability, slip, form or booking-create request for "2".
C22_Scenario ==
    (OnlyFirstKeyLeft /\ pc = "done") =>
       /\ \E j \in OpIdx :
             /\ ops[j].op = "delete"
             /\ ops[j].key = <<"hipcamp", "2">>
             /\ ops[j].event_id = DictGet(google_event_ids, <<"hipcamp", "2">>)
       /\ \E j \in OpIdx :
             /\ ops[j].op = "update"
             /\ ops[j].key = <<"hipcamp", "1">>
             /\ ops[j].event_id = DictGet(google_event_ids, <<"hipcamp", "1">>)
       /\ \A j \in OpIdx : ops[j].op # "insert"
       /\ \A j \in OpIdx :
             ops[j].op \in PropagationCalls => ops[j].key # <<"hipcamp", "2">>
       /\ \A a \in 1..Len(attempts) : attempts[a].key # <<"hipcamp", "2">>

\* Reached: the scenario's run is done, its delete and its update succeeded
\* and the entry of "2" is gone from the calendar while that of "1" is there.
C22_Witness ==
    /\ OnlyFirstKeyLeft
    /\ pc = "done"
    /\ \E j \in OpIdx : ops[j].op = "delete" /\ ops[j].ok
                        /\ ops[j].key = <<"hipcamp", "2">>
    /\ \E j \in OpIdx : ops[j].op = "update" /\ ops[j].ok
                        /\ ops[j].key = <<"hipcamp", "1">>
    /\ ~HasEntry(calendar, "g2")
    /\ HasEntry(calendar, "g1")



\* The hipcamp keys this run has to write that the read-back has no entry for.
NewHipcampKeys ==
    {key \in Range(DictKeys(new_events)) :
        key[1] = "hipcamp" /\ ~DictHas(existing_events_map, key)}

InsertIdx(key) == {j \in OpIdx : ops[j].op = "insert" /\ ops[j].key = key}

\* C23 -- for a hipcamp key new to the calendar the run sends one insert,
\* whose title ends in "Hipcamp" and whose private properties carry the key;
\* every request and every call of the propagation for the key comes after an
\* insert that succeeded, and after a failed insert no session is opened and
\* no propagation is attempted for the key.
C23_CreateBeforePropagation ==
    InSync =>
    \A key \in NewHipcampKeys :
       /\ pc = "done" => InsertIdx(key) # {}
       /\ Cardinality(InsertIdx(key)) <= 1
       /\ UpdateIdx(key) # {} => InsertIdx(key) # {}
       /\ \A j \in InsertIdx(key) :
             /\ ops[j].body.summary[Len(ops[j].body.summary)] = "Hipcamp"
             /\ ops[j].body.private["hipcamp_booking_id"] = key[2]
       /\ \A j \in OpIdx :
             (ops[j].op \in PropagationCalls /\ ops[j].key = key) =>
                \E i \in InsertIdx(key) : i < j /\ ops[i].ok
       /\ \A a \in 1..Len(attempts) :
             attempts[a].key = key => \E i \in InsertIdx(key) : ops[i].ok
       /\ (\E i \in InsertIdx(key) : ~ops[i].ok) =>
             /\ \A j \in OpIdx :
                   ops[j].op \in PropagationCalls => ops[j].key # key
             /\ \A a \in 1..Len(attempts) : attempts[a].key # key

\* Reached: a finished run with two new hipcamp keys: the insert of one was
\* rejected and nothing was propagated for it, the insert of the other
\* succeeded and was followed by its session and its booking-create request.
C23_Witness ==
    /\ pc = "done"
    /\ \E key \in NewHipcampKeys :
          /\ \E i \in InsertIdx(key) : ~ops[i].ok
          /\ \A a \in 1..Len(attempts) : attempts[a].key # key
    /\ \E key \in NewHipcampKeys :
          \E i \in InsertIdx(key) :
             /\ ops[i].ok
             /\ \E j \in OpIdx : /\ j > i /\ ops[j].key = key
                                 /\ ops[j].op = "booking/session"
             /\ \E j \in OpIdx : /\ j > i /\ ops[j].key = key
                                 /\ ops[j].op = "booking/create"



\* C24 -- the command-line entry points select the level from the count of
\* -v: none NORMAL, one WARN, two or more DEBUG.  main of camp_sync sets
\* NORMAL for one -v, so this does not hold.
C24_VerbosityFlag ==
    (boundary.entry \in {"main", "cli_main"} /\ boundary.outcome # "running")
       => boundary.level =
             (CASE boundary.verbose = 0 -> "NORMAL"
                [] boundary.verbose = 1 -> "WARN"
                [] OTHER -> "DEBUG")

\* Reached: main of camp_sync was started with one -v and has run with the
\* logger at NORMAL, at which a warn line is not printed.
C24_Witness ==
    /\ boundary.entry = "main"
    /\ boundary.verbose = 1
    /\ boundary.outcome # "running"
    /\ boundary.level = "NORMAL"
    /\ ~Logger_log(boundary.level, "WARN")



\* C25 -- within one run every calendar delete and every booking delete comes
\* before the first insert or update, the deletion pass has sent the delete of
\* every key due for deletion by then, nothing is written or propagated while
\* the deletion pass is on, and no key has both a delete and an insert or
\* update.
C25_PassOrdering ==
    /\ \A i \in DeleteIdx : \A j \in OpIdx :
          ops[j].op \in CalendarWrites \cup PropagationCalls =>
             /\ i < j
             /\ ops[i].key # ops[j].key
    /\ pc = "delete_pass" =>
          /\ \A j \in OpIdx :
                ops[j].op \notin CalendarWrites \cup PropagationCalls
          /\ attempts = <<>>
    /\ \A j \in OpIdx :
          ops[j].op \in CalendarWrites =>
             \A key \in DueForDelete :
                \E i \in 1..(j - 1) : ops[i].op = "delete" /\ ops[i].key = key

\* Reached: a finished run that deleted an entry and its booking and then
\* inserted one key and updated another.
C25_Witness ==
    /\ pc = "done"
    /\ \E i \in OpIdx : ops[i].op = "delete" /\ ops[i].ok
    /\ \E i \in OpIdx : ops[i].op = "booking/delete"
    /\ \E j \in OpIdx : ops[j].op = "insert" /\ ops[j].ok
    /\ \E j \in OpIdx : ops[j].op = "update" /\ ops[j].ok



\* The requests of one complete propagation attempt, in the order of
\* create_hipcamp_booking: create_booking_session, add_item_to_session (rated
\* item, then the slip posted to the session), create_booking (form, create).
ProtocolOrder ==
    <<"booking/session", "item", "booking/session/slip", "booking/form",
      "booking/create">>

\* C26 -- the requests of a propagation attempt are a prefix of: open session,
\* availability query, slip attached to the session, form schema, booking
\* create; they are what the run sent for the key, in that order; and the
\* booking-create request is in it only when the availability status was
\* AVAILABLE, a slip came back and the session held an item after the slip
\* was attached.
C26_BookingProtocolOrder ==
    \A a \in 1..Len(attempts) :
       LET calls == attempts[a].calls
           reply == attempts[a].reply
           OfAttempt(o) == o.op \in PropagationCalls /\ o.key = attempts[a].key
           sent == SelectSeq(ops, OfAttempt)
       IN /\ Len(calls) <= Len(ProtocolOrder)
          /\ calls = SubSeq(ProtocolOrder, 1, Len(calls))
          /\ [i \in 1..Len(sent) |-> sent[i].op] = calls
          /\ "booking/create" \in Range(calls) =>
                /\ reply.status = "AVAILABLE"
                /\ Truthy(reply.slip)
                /\ reply.attach = "ok"
                /\ reply.session = "ok"

\* Reached: one attempt went through all five requests and created a booking,
\* and the run is done.
C26_Witness ==
    /\ pc = "done"
    /\ \E a \in 1..Len(attempts) :
          /\ attempts[a].calls = ProtocolOrder
          /\ attempts[a].outcome = "created"
          /\ \E i, j \in OpIdx :
                /\ i < j
                /\ ops[i].op = "booking/session"
                /\ ops[j].op = "booking/create"
                /\ ops[i].key = attempts[a].key
                /\ ops[j].key = attempts[a].key



\* C27 -- when the form schema was fetched, create_booking raises ValueError
\* and sends no booking-create request if a required field has no non-empty
\* value in the supplied info merged over the defaults; otherwise it sends the
\* request, whose form has a non-empty value for every required field.
C27_RequiredCustomerFields ==
    \A a \in 1..Len(attempts) :
       LET at == attempts[a]
           merged == merge_customer_info(
                        default_customer_info(at.customer_info),
                        at.customer_info)
           filled(info, field) ==
               \E i \in 1..Len(info) :
                  info[i][1] = field /\ info[i][2] # <<>>
           unfilled == {field \in at.reply.required : ~filled(merged, field)}
       IN ("booking/form" \in Range(at.calls) /\ at.reply.form = "ok") =>
             IF unfilled # {}
             THEN /\ at.outcome = "error"
                  /\ at.key = NoKey => at.raised = "ValueError"
                  /\ "booking/create" \notin Range(at.calls)
                  /\ at.form = NoForm
                  /\ at.booking_id = None
             ELSE /\ "booking/create" \in Range(at.calls)
                  /\ \A field \in at.reply.required : filled(at.form, field)

\* Reached: create_booking was given an empty name for a schema that requires
\* customer_name, fetched the schema, raised ValueError and sent no
\* booking-create request.
C27_Witness ==
    \E a \in 1..Len(attempts) :
       /\ attempts[a].key = NoKey
       /\ DictHas(attempts[a].customer_info, "name")
       /\ DictGet(attempts[a].customer_info, "name") = <<>>
       /\ "customer_name" \in attempts[a].reply.required
       /\ attempts[a].calls = <<"booking/form">>
       /\ attempts[a].raised = "ValueError"
       /\ pc = "raised"



\* The title prefix is the display name of no configured site, or of a site
\* without a Checkfront item.
Unmapped(summary) ==
    ~\E i \in 1..Len(SITE_DISPLAY_NAMES) :
         /\ SITE_DISPLAY_NAMES[i][2] = summary[1]
         /\ \E m \in 1..Len(HIPCAMP_TO_CHECKFRONT) :
               HIPCAMP_TO_CHECKFRONT[m][1] = SITE_DISPLAY_NAMES[i][1]

\* C28 -- a propagation attempt for a reservation whose title prefix is no
\* configured display name, or whose site has no Checkfront item, returns no
\* booking id, opens no session and sends no request; nothing is raised, the
\* pass goes on, and the calendar write of the key is the only request made
\* for it.
C28_UnmappedSite ==
    \A a \in 1..Len(attempts) :
       LET at == attempts[a]
       IN Unmapped(at.body.summary) =>
             /\ at.booking_id = None
             /\ at.calls = <<>>
             /\ at.raised = None
             /\ pc # "raised"
             /\ \A b \in 1..Len(bookings) :
                   bookings[b].hipcamp_id = at.key[2] =>
                      DictHas(hipcamp_to_checkfront, at.key[2])
             /\ \A j \in OpIdx :
                   ops[j].key = at.key =>
                      /\ ops[j].op \in CalendarWrites
                      /\ ops[j].ok
             /\ Cardinality({j \in OpIdx : ops[j].key = at.key}) = 1
             /\ \E i \in 1..Len(calendar) :
                   /\ "hipcamp_booking_id" \in DOMAIN calendar[i].private
                   /\ calendar[i].private["hipcamp_booking_id"] = at.key[2]
                   /\ calendar[i].summary
                         = summary_with_source(at.body.summary, "hipcamp")

\* Reached: the pass is done; the attempt for a reservation titled with a
\* site name that is no display name made no request, and the entry of the
\* key was inserted.
C28_Witness ==
    /\ pc = "done"
    /\ \E a \in 1..Len(attempts) :
          /\ attempts[a].body.summary[1] = "Meadow"
          /\ attempts[a].calls = <<>>
          /\ \E j \in OpIdx : /\ ops[j].op = "insert" /\ ops[j].ok
                              /\ ops[j].key = attempts[a].key



\* The updates of this run whose body attaches a Checkfront booking id to the
\* entry of a hipcamp key.
EnrichmentIdx ==
    {j \in OpIdx : /\ ops[j].op = "update"
                   /\ ops[j].key[1] = "hipcamp"
                   /\ "checkfront_booking_id" \in DOMAIN ops[j].body.private}

\* C29 -- an update that attaches a propagated booking id is sent only after
\* an attempt for the same key returned that id; its body still carries the
\* key's hipcamp_booking_id; on the update path it is addressed to the id the
\* read-back has for the key, on the create path to the id of the entry the
\* insert of this key made, which no entry of the read-back has.
C29_EnrichmentAddressing ==
    \A j \in EnrichmentIdx :
       LET key == ops[j].key
           private == ops[j].body.private
       IN /\ \E a \in 1..Len(attempts) :
                /\ attempts[a].key = key
                /\ Truthy(attempts[a].booking_id)
                /\ attempts[a].booking_id = private["checkfront_booking_id"]
          /\ "hipcamp_booking_id" \in DOMAIN private
          /\ private["hipcamp_booking_id"] = key[2]
          /\ \E w \in WriteIdx(key) : w < j /\ ops[w].ok
          /\ IF DictHas(existing_events_map, key)
             THEN /\ ops[j].event_id
                        = DictGet(existing_events_map, key).google_event_id
                  /\ \E w \in UpdateIdx(key) :
                        w < j /\ ops[w].event_id = ops[j].event_id
             ELSE /\ InsertIdx(key) # {}
                  /\ \A e \in 1..Len(google_events) :
                        google_events[e].google_event_id # ops[j].event_id
          /\ \E i \in 1..Len(calendar) :
                /\ calendar[i].id = ops[j].event_id
                /\ "hipcamp_booking_id" \in DOMAIN calendar[i].private
                /\ calendar[i].private["hipcamp_booking_id"] = key[2]
          /\ \A k \in EnrichmentIdx : ops[k].key = key => k = j

\* Reached: a finished run enriched the entry it had inserted for a key the
\* read-back did not have, and the entry now carries both ids.
C29_Witness ==
    /\ pc = "done"
    /\ \E j \in EnrichmentIdx :
          /\ ops[j].ok
          /\ ~DictHas(existing_events_map, ops[j].key)
          /\ \E i \in 1..Len(calendar) :
                /\ calendar[i].id = ops[j].event_id
                /\ Linked(calendar[i].private)



\* C30 -- the packaged sync does not delete a tracked entry of existing_events
\* whose end is before now and whose key no source event carries.  Its
\* deletion loop tests only `key not in new_events`, so this does not hold.
C30_PackagedKeepsPastEntries ==
    \A i \in 1..Len(google_events) :
       LET e == google_events[i]
       IN (/\ pc \in {"packaged_delete_pass", "packaged_upsert_pass", "done"}
           /\ Truthy(e.source_id)
           /\ normalize_datetime(e.end_time) < now
           /\ KeyOf(e) \notin SourceKeys) =>
             \A j \in OpIdx :
                ops[j].op = "delete" => ops[j].event_id # e.google_event_id

\* Reached: the packaged sync is done and has deleted, with success, a
\* tracked entry that ended before now and that no source lists; the entry
\* is gone from the calendar.
C30_Witness ==
    /\ pc = "done"
    /\ \E i \in 1..Len(google_events) :
          LET e == google_events[i]
          IN /\ Truthy(e.source_id)
             /\ normalize_datetime(e.end_time) < now
             /\ KeyOf(e) \notin SourceKeys
             /\ \E j \in OpIdx : /\ ops[j].op = "delete" /\ ops[j].ok
                                 /\ ops[j].event_id = e.google_event_id
             /\ ~HasEntry(calendar, e.google_event_id)

\* The listing query that sync_events_to_calendar makes before its passes
\* (the "event" request that belongs to no key) was answered with an error.
MappingQueryFailed ==
    \E j \in OpIdx :
       ops[j].op = "event" /\ ops[j].key = NoKey /\ ~ops[j].ok

\* C31 -- a failure of the listing query made at the start of
\* sync_events_to_calendar does not stop the run: the run goes on to its
\* passes and sends the deletes, updates and inserts that are due.  The call
\* is outside any try, so its exception ends the run: this does not hold.
C31_MappingFailureDoesNotStop ==
    MappingQueryFailed =>
       /\ pc # "raised"
       /\ pc = "done" =>
             \A key \in LiveSourceKeys : WriteIdx(key) # {}

\* Reached: the listing query failed in a run that had read the calendar and
\* holds non-ended source events; the run has ended with the exception and
\* has sent no request to the calendar beyond the read.
C31_Witness ==
    /\ pc = "raised"
    /\ MappingQueryFailed
    /\ ListOk
    /\ LiveSourceKeys # {}
    /\ \A j \in OpIdx : ops[j].op \notin CalendarOps

\* The ids that a feed whose request failed in this run would have listed:
\* the feeds are what the sources hold, fetched or not.
UnfetchedKeys ==
    {<<"hipcamp", e.source_id>> :
        e \in UNION {Range(hipcamp_feed_events(site, hipcamp_feeds[site])) :
                        site \in fetch_failed \ {"checkfront"}}}
    \cup (IF "checkfront" \in fetch_failed
          THEN {<<"checkfront", e.source_id>> :
                   e \in Range(checkfront_feed_events(checkfront_feed))}
          ELSE {})

\* C32 -- when the request for a source feed fails in a run, the run deletes
\* no calendar entry and no booking of a reservation that this feed holds.
\* The failed feed contributes no event, so its keys are missing from
\* new_events and their non-ended entries are deleted: this does not hold.
C32_FailedFeedDeletesNothing ==
    \A j \in DeleteIdx : ops[j].key \notin UnfetchedKeys

\* Reached: the run is done, the request for a HipCamp feed failed, and the
\* run has deleted the calendar entry of a non-ended reservation that this
\* feed lists and then the booking propagated from it.
C32_Witness ==
    /\ pc = "done"
    /\ \E j, k \in OpIdx :
          /\ j < k
          /\ ops[j].op = "delete" /\ ops[j].ok
          /\ ops[k].op = "booking/delete" /\ ops[k].ok
          /\ ops[j].key = ops[k].key
          /\ ops[j].key \in UnfetchedKeys
          /\ \E site \in fetch_failed \ {"checkfront"} :
                \E e \in Range(hipcamp_feed_events(site,
                                                   hipcamp_feeds[site])) :
                   /\ e.source_id = ops[j].key[2]
                   /\ normalize_datetime(e.end_time) > now
          /\ ~HasEntry(calendar, ops[j].event_id)
          /\ BookingsOf(ops[j].key[2]) = {}

\* The calendar read of this run was answered with an HttpError.
ListFailed == ops # <<>> /\ ops[1].op = "list" /\ ~ops[1].ok

\* C33 -- in a run whose calendar read failed, no insert is sent for a key
\* that already has an entry in the calendar and no booking session is opened
\* for it: the entries of a key for which the run sent an insert, or opened a
\* session, are at most the one that this insert made.  The failed read gives
\* an empty list, so every key looks new: this does not hold.
C33_FailedReadCreatesNoDuplicate ==
    ListFailed =>
       \A j \in OpIdx :
          /\ ops[j].op = "insert" =>
                Cardinality(EntriesOf(ops[j].key))
                   <= (IF ops[j].ok THEN 1 ELSE 0)
          /\ ops[j].op = "booking/session" =>
                Cardinality(EntriesOf(ops[j].key)) <= 1

\* Reached: the read failed, and the finished run has inserted a second entry
\* for a hipcamp key that had one, and has made a second booking for it.
C33_Witness ==
    /\ pc = "done"
    /\ ListFailed
    /\ \E j, k \in OpIdx :
          /\ ops[j].op = "insert" /\ ops[j].ok
          /\ ops[k].op = "booking/create" /\ ops[k].key = ops[j].key
          /\ Cardinality(EntriesOf(ops[j].key)) = 2
          /\ Cardinality(BookingsOf(ops[j].key[2])) = 2

C35_LinkedEntryReadAsHipcamp ==
    \A g \in 1..Len(google_events) :
       \A i \in 1..Len(calendar) :
          (/\ calendar[i].id = google_events[g].google_event_id
           /\ Linked(calendar[i].private)) =>
             /\ google_events[g].source = "hipcamp"
             /\ google_events[g].source_id
                   = calendar[i].private["hipcamp_booking_id"]
             /\ google_events[g].source_id
                   # calendar[i].private["checkfront_booking_id"]

\* Reached: a later run has just read the calendar; the read-back holds, as a
\* hipcamp event, the entry that an earlier run inserted and then linked to
\* the booking it made.
C35_Witness ==
    /\ run = 2
    /\ pc = "fetch_hipcamp"
    /\ \E g \in 1..Len(google_events) :
          \E i \in 1..Len(calendar) :
             /\ calendar[i].id = google_events[g].google_event_id
             /\ calendar[i].id \notin {"g1", "g2", "g3", "g4"}
             /\ Linked(calendar[i].private)
             /\ google_events[g].source = "hipcamp"
             /\ \E b \in BookingsOf(google_events[g].source_id) :
                   bookings[b].id = calendar[i].private["checkfront_booking_id"]

\* Bookings that the propagation made: their notes embed a HipCamp id.
PropagatedIds ==
    {bookings[b].id : b \in {k \in 1..Len(bookings) :
                                bookings[k].hipcamp_id # None}}

\* C36 -- no feedback loop: the feed lists the bookings that the propagation
\* made, with "(HipCamp)" in the customer name, and fetch_checkfront_events
\* leaves them out; no run holds a checkfront event for such a booking,
\* writes an entry for one, or leaves a checkfront-sourced entry of one in
\* the calendar.
C36_NoFeedbackLoop ==
    /\ \A b \in 1..Len(bookings) :
          bookings[b].hipcamp_id # None =>
             "(HipCamp)" \in Range(bookings[b].customer_name)
    /\ \A e \in 1..Len(checkfront_events) :
          checkfront_events[e].source_id \notin PropagatedIds
    /\ \A j \in OpIdx :
          (ops[j].op \in CalendarWrites /\ ops[j].key[1] = "checkfront") =>
             ops[j].key[2] \notin PropagatedIds
    /\ \A i \in 1..Len(calendar) :
          ("hipcamp_booking_id" \notin DOMAIN calendar[i].private
           /\ "checkfront_booking_id" \in DOMAIN calendar[i].private) =>
             calendar[i].private["checkfront_booking_id"] \notin PropagatedIds

\* Reached: a second run is done; it fetched a feed that listed, not ended,
\* the booking that the first run had made for a HipCamp reservation, and
\* the reservation has its hipcamp entry and that booking, nothing more.
C36_Witness ==
    /\ run = 2
    /\ pc = "done"
    /\ "checkfront" \notin fetch_failed
    /\ \A j \in OpIdx : ops[j].op # "booking/create"
    /\ \E b \in 1..Len(bookings) :
          /\ bookings[b].id = "101"
          /\ bookings[b].hipcamp_id # None
          /\ bookings[b].end_date * TicksPerDay > now
          /\ Cardinality(EntriesOf(<<"hipcamp", bookings[b].hipcamp_id>>)) = 1
          /\ EntriesOf(<<"checkfront", "101">>) = {}

\* The step is an iteration of one of the two loops for a key that is not a
\* hipcamp key.
VisitsOtherSource ==
    /\ pc \in {"delete_pass", "upsert_pass"}
    /\ todo # <<>>
    /\ Head(todo)[1] # "hipcamp"

\* C37 -- every request that sync_events_to_calendar sends to the booking
\* system, and every call of create_hipcamp_booking, is for a hipcamp key;
\* an iteration that deletes, updates or inserts the entry of a checkfront
\* key leaves the records of the booking system as they are.
C37_BookingWritesOnlyForHipcamp ==
    /\ [](/\ \A j \in OpIdx :
                ops[j].op \in (PropagationCalls \cup {"booking/delete"}) =>
                   ops[j].key[1] = "hipcamp"
          /\ \A a \in 1..Len(attempts) : attempts[a].key[1] = "hipcamp")
    /\ [][VisitsOtherSource =>
             /\ bookings' = bookings
             /\ next_booking_id' = next_booking_id
             /\ attempts' = attempts]_vars

\* Reached: the finished run has deleted the non-ended entry of a checkfront
\* key, the booking system holds a booking, and the run has sent the booking
\* system nothing but its listing query.
C37_Witness ==
    /\ pc = "done"
    /\ bookings # <<>>
    /\ \E j \in OpIdx :
          /\ ops[j].op = "delete" /\ ops[j].ok
          /\ ops[j].key[1] = "checkfront"
          /\ ~HasEntry(calendar, ops[j].event_id)
    /\ \A j \in OpIdx :
          ops[j].op \notin (PropagationCalls \cup {"booking/delete"})

\* The requests of delete_hipcamp_booking for a key: its listing and its
\* delete.
BookingDeleteIdx(key) ==
    {k \in OpIdx : ops[k].op \in {"event", "booking/delete"} /\ ops[k].key = key}

\* C38 -- a request of delete_hipcamp_booking for a key is sent only after
\* the calendar delete of the key's entry, sent in this run, was accepted;
\* after a calendar delete that raised HttpError no such request follows for
\* the key in the run.
C38_BookingDeleteAfterCalendarDelete ==
    /\ \A k \in OpIdx :
          (ops[k].op \in {"event", "booking/delete"} /\ ops[k].key # NoKey) =>
             \E j \in 1..(k - 1) :
                /\ ops[j].op = "delete" /\ ops[j].ok
                /\ ops[j].key = ops[k].key
    /\ \A j \in OpIdx :
          (ops[j].op = "delete" /\ ~ops[j].ok) =>
             BookingDeleteIdx(ops[j].key) = {}

\* Reached: the finished run sent the delete of a hipcamp entry, the calendar
\* answered with an error, and the booking that embeds the HipCamp id is
\* still there, no request having been sent for it.
C38_Witness ==
    /\ pc = "done"
    /\ \E j \in OpIdx :
          /\ ops[j].op = "delete" /\ ~ops[j].ok
          /\ ops[j].key[1] = "hipcamp"
          /\ HasEntry(calendar, ops[j].event_id)
          /\ BookingsOf(ops[j].key[2]) # {}
          /\ BookingDeleteIdx(ops[j].key) = {}


\* Positions in the fetched source events of the non-ended listings of a key.
ListingIdx(key) ==
    {i \in 1..Len(SourceEvents) :
        /\ KeyOf(SourceEvents[i]) = key
        /\ Truthy(SourceEvents[i].source_id)
        /\ not_ended(SourceEvents[i], now)}

\* Keys that the feeds of this run list more than once.
RelistedKeys == {key \in LiveSourceKeys : Cardinality(ListingIdx(key)) >= 2}

LastListing(key) ==
    SourceEvents[CHOOSE i \in ListingIdx(key) : \A k \in ListingIdx(key) : k <= i]

AttemptIdx(key) == {a \in 1..Len(attempts) : attempts[a].key = key}

=============================================================================
